---- MODULE Spec2Model ----
(***************************************************************************)
(* Model of the forecasting core of the miner (src/synth/miner): the       *)
(* request handler, the spot price cache, the EWMA volatility table, the   *)
(* volatility-to-step converter, the path generator, the local validator,  *)
(* the prediction log, state persistence and parameter governance.         *)
(*                                                                         *)
(* Fixed-point units (the code uses float64):                              *)
(*   time       seconds (datetime differences, total_seconds())            *)
(*   price      cents, 1e-2                                                *)
(*   variance   sigma2_1m in 1e-10                                         *)
(*   return     log return in 1e-6                                         *)
(*   sigma_step in 1e-8                                                    *)
(*   lambda, sigma_cap_daily, shrink  in 1e-2;  df in units                *)
(* A non-finite float (NaN, +Inf, -Inf) is the sentinel NonFinite.         *)
(***************************************************************************)
EXTENDS Integers, Sequences, FiniteSets, TLC

VARIABLES
    now,                \* wall clock, datetime.now()
    states,             \* VolatilityStateManager._states
    price_cache,        \* price_fetcher._price_cache with _cache_timestamps
    tuning_history,     \* ParameterGovernance.tuning_history, the tuning records
    miner_start_date,   \* ParameterGovernance.miner_start_date
    history_file,       \* tuning_history.json as last saved
    last_proposal,      \* what the last propose_parameter_change call returned
    hr,                 \* the handle_request call in flight
    result,             \* what the last handle_request call returned
    pred_log,           \* the prediction log (records appended)
    last_logged_time,   \* PredictionLogger.last_logged_time
    state_file,         \* volatility_state.json as last persisted
    last_persist_time,  \* StatePersistence.last_persist_time
    nreq,               \* requests started
    nprop,              \* proposals made
    threads,            \* the calls of the concurrent callers, with their locals
    conv,               \* a convert_to_step_volatility call: arguments and result
    temp_file,          \* volatility_state.json.tmp and the persist_state call writing it
    attempts,           \* the last call of a price source: requests sent, outcome
    realized_cache,     \* historical_price_fetcher._PRICE_CACHE: the keys it holds
    log_files,          \* predictions_<day>.jsonl: the lines of each day's file
    query,              \* the last get_logged_predictions call: arguments and result
    score_store,        \* crps_results_*.jsonl as appended, and the scheduler's last_crps_replay
    tuning,             \* a get_tuning_suggestions call: report and suggestions
    report,             \* a generate_diagnostics_report call: results and report
    loops               \* the background loops: flags, threads, the steps of a cycle

vars == <<now, states, price_cache, tuning_history, miner_start_date, history_file,
          last_proposal, hr, result, pred_log, last_logged_time, state_file,
          last_persist_time, nreq, nprop,
          threads, conv, temp_file, attempts, realized_cache, log_files, query,
          score_store, tuning, report, loops>>

\* the variables of the checkpoint in progress, the price sources' calls and the
\* offline scoring
others == <<temp_file, attempts, realized_cache, log_files, query, score_store, tuning,
            report, loops>>

-----------------------------------------------------------------------------
(* Bounds of the model *)

MaxNow == 40
MaxRequests == 2
MaxProposals == 1

(* Program constants *)

REQUIRED_SIMULATIONS == 1000
MAX_DIGITS == 8
FIRST_TUNING_ELIGIBILITY_DAYS == 14
MIN_TIME_BETWEEN_TUNINGS_DAYS == 30
POST_TUNING_OBSERVATION_DAYS == 14
CACHE_MAX_AGE_SECONDS == 180
SECONDS_PER_DAY == 86400
HIGH_INTERVAL == 900
LOW_INTERVAL == 1800
PERSIST_INTERVAL == 30
FORCE_PERSIST_INTERVAL == 300
SIGMA2_FLOOR == 100
SIGMA_STEP_FLOOR == 1
FLATTENED_SIGMA_STEP == 1
UPDATE_DEFAULT_SIGMA2 == 10000
UPDATE_MIN_SECONDS == 30
FALLBACK_START_PRICE == 100
NonFinite == -1

Assets == {"BTC", "XAU"}
Parameters == {"lambda", "df", "sigma_cap_daily"}
TickSteps == {20}

-----------------------------------------------------------------------------
(* Decimal arithmetic helpers *)

Abs(x) == IF x < 0 THEN -x ELSE x

Min(a, b) == IF a <= b THEN a ELSE b

Max(a, b) == IF a >= b THEN a ELSE b

RECURSIVE Pow10(_)
Pow10(k) == IF k <= 0 THEN 1 ELSE 10 * Pow10(k - 1)

RECURSIVE NumDigits(_)
NumDigits(n) == IF n < 10 THEN 1 ELSE 1 + NumDigits(n \div 10)

RECURSIVE StripTrailingZeros(_)
StripTrailingZeros(n) ==
    IF n = 0 \/ n % 10 # 0 THEN n ELSE StripTrailingZeros(n \div 10)

\* number of significant decimal digits of a non-negative fixed-point number
SignificantDigits(n) == IF n = 0 THEN 1 ELSE NumDigits(StripTrailingZeros(n))

\* round(x / unit) * unit with ties to even, as Python's round()
RoundHalfEven(n, unit) ==
    LET q == n \div unit
        r == n % unit
    IN  IF 2 * r > unit \/ (2 * r = unit /\ q % 2 = 1)
        THEN (q + 1) * unit
        ELSE q * unit

RECURSIVE SqrtSearch(_, _, _)
SqrtSearch(n, lo, hi) ==
    IF lo >= hi THEN lo
    ELSE LET mid == (lo + hi + 1) \div 2
         IN  IF mid * mid <= n THEN SqrtSearch(n, mid, hi)
             ELSE SqrtSearch(n, lo, mid - 1)

\* floor(sqrt(n)) for 0 <= n < 2^31
ISqrt(n) == SqrtSearch(n, 0, Min(n, 46340))

-----------------------------------------------------------------------------
(* Static defaults *)

DEFAULT_LAMBDA ==
    [a \in {"BTC", "ETH", "SOL", "XAU", "SPYX", "NVDAX", "TSLAX", "AAPLX", "GOOGLX"} |->
        CASE a = "BTC" -> 94 [] a = "ETH" -> 93 [] a = "SOL" -> 90 [] a = "XAU" -> 97
          [] a \in {"SPYX", "AAPLX", "GOOGLX"} -> 98 [] OTHER -> 97]

DEFAULT_DF ==
    [a \in {"BTC", "ETH", "SOL", "XAU", "SPYX", "NVDAX", "TSLAX", "AAPLX", "GOOGLX"} |->
        CASE a \in {"BTC", "ETH"} -> 5 [] a = "SOL" -> 4 [] a = "XAU" -> 10
          [] a \in {"SPYX", "AAPLX", "GOOGLX"} -> 30 [] OTHER -> 20]

SIGMA_CAP_DAILY ==
    [a \in {"BTC", "ETH", "SOL", "XAU", "SPYX", "NVDAX", "TSLAX", "AAPLX", "GOOGLX"} |->
        CASE a = "BTC" -> 10 [] a = "ETH" -> 12 [] a = "SOL" -> 18 [] a = "XAU" -> 3
          [] a = "NVDAX" -> 4 [] a = "TSLAX" -> 5 [] OTHER -> 2]

SHRINK_HIGH ==
    [a \in {"BTC", "ETH", "SOL", "XAU"} |-> IF a = "XAU" THEN 95 ELSE 90]

EQUITY_ASSETS == {"SPYX", "NVDAX", "TSLAX", "AAPLX", "GOOGLX"}

TOKEN_MAP == {"BTC", "ETH", "XAU", "SOL"}

-----------------------------------------------------------------------------
(* Parameter governance *)

\* the outcome of a call: a returned value, a returned None, or a raised exception
Return(v) == [exc |-> "none", none |-> FALSE, val |-> v]

ReturnNone == [exc |-> "none", none |-> TRUE, val |-> 0]

Raise(e) == [exc |-> e, none |-> FALSE, val |-> 0]

Key(asset, parameter_name) == <<asset, parameter_name>>

\* the record propose_parameter_change stores under the key
TuningRecord(date, asset, parameter_name, old_value, new_value) ==
    [date |-> date, asset |-> asset, parameter |-> parameter_name,
     old_value |-> old_value, new_value |-> new_value, reason |-> "tuning"]

ParameterDefaults(parameter_name) ==
    CASE parameter_name = "lambda" -> DEFAULT_LAMBDA
      [] parameter_name = "df" -> DEFAULT_DF
      [] parameter_name = "sigma_cap_daily" -> SIGMA_CAP_DAILY
      [] OTHER -> << >>

\* reads last_tune["value"] of the stored record, else the static default
GetCurrentParameterValue(hist, asset, parameter_name) ==
    LET key == Key(asset, parameter_name)
    IN  IF key \in DOMAIN hist
        THEN IF "value" \in DOMAIN hist[key]
             THEN Return(hist[key]["value"])
             ELSE Raise("KeyError")
        ELSE LET param_defaults == ParameterDefaults(parameter_name)
             IN  IF asset \in DOMAIN param_defaults
                 THEN Return(param_defaults[asset])
                 ELSE ReturnNone

GetParameterBounds(parameter_name) ==
    CASE parameter_name = "lambda" -> <<80, 99>>
      [] parameter_name = "df" -> <<3, 50>>
      [] parameter_name = "sigma_cap_daily" -> <<1, 20>>
      [] OTHER -> <<0, 100>>

\* the step of an unknown parameter (0.1) is below the unit and never reached:
\* an unknown parameter has no current value
GetMaxStepSize(parameter_name) ==
    IF parameter_name \in {"lambda", "df", "sigma_cap_daily"} THEN 1 ELSE 0

Reason(rule, a, b) == [rule |-> rule, a |-> a, b |-> b]

\* timedelta.days
Days(seconds) == seconds \div SECONDS_PER_DAY

\* is_tuning_eligible with the first tuning allowed a day early
IsTuningEligibleDayEarly(hist, start_date, t, asset, parameter_name) ==
    LET days_since_start == Days(t - start_date)
        key == Key(asset, parameter_name)
    IN  IF key \notin DOMAIN hist
        THEN IF days_since_start < FIRST_TUNING_ELIGIBILITY_DAYS - 1
             THEN [eligible |-> FALSE,
                   reason |-> Reason("first_tuning_requires_days",
                                     FIRST_TUNING_ELIGIBILITY_DAYS, days_since_start)]
             ELSE [eligible |-> TRUE, reason |-> Reason("first_tuning_eligible", 0, 0)]
        ELSE LET last_tune_date == hist[key].date
                 days_since_tune == Days(t - last_tune_date)
                 observation_end ==
                     last_tune_date + POST_TUNING_OBSERVATION_DAYS * SECONDS_PER_DAY
             IN  IF days_since_tune < MIN_TIME_BETWEEN_TUNINGS_DAYS
                 THEN [eligible |-> FALSE,
                       reason |-> Reason("min_days_between_tunings",
                                         MIN_TIME_BETWEEN_TUNINGS_DAYS, days_since_tune)]
                 ELSE IF t < observation_end
                 THEN [eligible |-> FALSE,
                       reason |-> Reason("observation_period",
                                         POST_TUNING_OBSERVATION_DAYS, observation_end)]
                 ELSE [eligible |-> TRUE, reason |-> Reason("tuning_eligible", 0, 0)]

IsTuningEligible(hist, start_date, t, asset, parameter_name) ==
    LET days_since_start == Days(t - start_date)
        key == Key(asset, parameter_name)
    IN  IF key \notin DOMAIN hist
        THEN IF days_since_start < FIRST_TUNING_ELIGIBILITY_DAYS
             THEN [eligible |-> FALSE,
                   reason |-> Reason("first_tuning_requires_days",
                                     FIRST_TUNING_ELIGIBILITY_DAYS, days_since_start)]
             ELSE [eligible |-> TRUE, reason |-> Reason("first_tuning_eligible", 0, 0)]
        ELSE LET last_tune_date == hist[key].date
                 days_since_tune == Days(t - last_tune_date)
                 observation_end ==
                     last_tune_date + POST_TUNING_OBSERVATION_DAYS * SECONDS_PER_DAY
             IN  IF days_since_tune < MIN_TIME_BETWEEN_TUNINGS_DAYS
                 THEN [eligible |-> FALSE,
                       reason |-> Reason("min_days_between_tunings",
                                         MIN_TIME_BETWEEN_TUNINGS_DAYS, days_since_tune)]
                 ELSE IF t < observation_end
                 THEN [eligible |-> FALSE,
                       reason |-> Reason("observation_period",
                                         POST_TUNING_OBSERVATION_DAYS, observation_end)]
                 ELSE [eligible |-> TRUE, reason |-> Reason("tuning_eligible", 0, 0)]

\* The hundredths h of 0.00..0.21 and 0.79..1.00 for which the float64 difference
\* (h + 1) / 100 - h / 100 is above the float64 0.01 (0.010000000000000009 for
\* 0.95 - 0.94); for the other h of these ranges it is 0.01 or below.
InexactHundredths ==
    {3, 4, 6, 9, 12, 13, 15, 16, 18, 19} \cup ((79..99) \ {81, 93})

\* abs(new_value - current_value) > max_step in float64; lambda and the daily cap
\* are hundredths, df is a whole number
StepSizeExceeds(parameter_name, new_value, current_value, max_step) ==
    LET step_size == Abs(new_value - current_value)
    IN  \/ step_size > max_step
        \/ /\ parameter_name # "df"
           /\ step_size = max_step
           /\ Min(new_value, current_value) \in InexactHundredths

\* propose_parameter_change clamping an out-of-range value into the bounds and
\* recording the clamped value
ProposeParameterChangeClamping(hist, start_date, t, asset, parameter_name, new_value) ==
    LET elig == IsTuningEligible(hist, start_date, t, asset, parameter_name)
        current == GetCurrentParameterValue(hist, asset, parameter_name)
        bounds == GetParameterBounds(parameter_name)
        max_step == GetMaxStepSize(parameter_name)
        clamped == Max(bounds[1], Min(new_value, bounds[2]))
        step_size == Abs(clamped - current.val)
        key == Key(asset, parameter_name)
        Rejected(r) == [exc |-> "none", ok |-> FALSE, reason |-> r, hist |-> hist]
    IN  IF ~elig.eligible THEN Rejected(elig.reason)
        ELSE IF current.exc # "none"
        THEN [exc |-> current.exc, ok |-> FALSE,
              reason |-> Reason("raised", 0, 0), hist |-> hist]
        ELSE IF current.none THEN Rejected(Reason("unknown_parameter", 0, 0))
        ELSE IF StepSizeExceeds(parameter_name, clamped, current.val, max_step)
        THEN Rejected(Reason("step_size_exceeds_max", step_size, max_step))
        ELSE [exc |-> "none", ok |-> TRUE,
              reason |-> Reason("recorded", current.val, clamped),
              hist |-> [k \in DOMAIN hist \cup {key} |->
                          IF k = key
                          THEN TuningRecord(t, asset, parameter_name,
                                            current.val, clamped)
                          ELSE hist[k]]]

\* propose_parameter_change: what it returns and the history it leaves
ProposeParameterChange(hist, start_date, t, asset, parameter_name, new_value) ==
    LET elig == IsTuningEligible(hist, start_date, t, asset, parameter_name)
        current == GetCurrentParameterValue(hist, asset, parameter_name)
        bounds == GetParameterBounds(parameter_name)
        max_step == GetMaxStepSize(parameter_name)
        step_size == Abs(new_value - current.val)
        key == Key(asset, parameter_name)
        Rejected(r) == [exc |-> "none", ok |-> FALSE, reason |-> r, hist |-> hist]
    IN  IF ~elig.eligible THEN Rejected(elig.reason)
        ELSE IF current.exc # "none"
        THEN [exc |-> current.exc, ok |-> FALSE,
              reason |-> Reason("raised", 0, 0), hist |-> hist]
        ELSE IF current.none THEN Rejected(Reason("unknown_parameter", 0, 0))
        ELSE IF new_value < bounds[1] \/ new_value > bounds[2]
        THEN Rejected(Reason("out_of_bounds", bounds[1], bounds[2]))
        ELSE IF StepSizeExceeds(parameter_name, new_value, current.val, max_step)
        THEN Rejected(Reason("step_size_exceeds_max", step_size, max_step))
        ELSE [exc |-> "none", ok |-> TRUE,
              reason |-> Reason("recorded", current.val, new_value),
              hist |-> [k \in DOMAIN hist \cup {key} |->
                          IF k = key
                          THEN TuningRecord(t, asset, parameter_name,
                                            current.val, new_value)
                          ELSE hist[k]]]

\* VolatilityStateManager.get_lambda
GetLambda(hist, asset) ==
    LET tuned_value == GetCurrentParameterValue(hist, asset, "lambda")
    IN  IF tuned_value.exc # "none" THEN tuned_value
        ELSE IF ~tuned_value.none THEN tuned_value
        ELSE Return(95)

\* path_generator.get_student_t_df
GetStudentTDf(hist, asset) ==
    LET tuned_value == GetCurrentParameterValue(hist, asset, "df")
    IN  IF tuned_value.exc # "none" THEN tuned_value
        ELSE IF ~tuned_value.none THEN tuned_value
        ELSE Return(5)

-----------------------------------------------------------------------------
(* Spot price source and cache (price_fetcher.py) *)

\* a missing price (None); a price is > 0
NoPrice == 0

\* what the price feed can answer for an asset: a positive price, or a failure
PythPrices(asset) ==
    CASE asset = "BTC" -> {5000000, 5005000}
      [] asset = "XAU" -> {1000000001}
      [] OTHER -> {}

\* _fetch_price_from_pyth: None for an asset without feed id, else the feed's answer
PythOutcomes(asset) ==
    IF asset \notin TOKEN_MAP THEN {NoPrice} ELSE PythPrices(asset) \cup {NoPrice}

NoCache == [price |-> NoPrice, ts |-> 0]

\* fetch_start_price accepting a cached price aged exactly the bound
FetchStartPriceStaleInclusive(cache, asset, t, pyth) ==
    IF pyth # NoPrice /\ pyth > 0
    THEN [price |-> pyth,
          cache |-> [cache EXCEPT ![asset] = [price |-> pyth, ts |-> t]]]
    ELSE IF cache[asset].price # NoPrice
            /\ t - cache[asset].ts <= CACHE_MAX_AGE_SECONDS
    THEN [price |-> cache[asset].price, cache |-> cache]
    ELSE [price |-> NoPrice, cache |-> cache]

\* fetch_start_price at time t when the feed answers pyth
FetchStartPrice(cache, asset, t, pyth) ==
    IF pyth # NoPrice /\ pyth > 0
    THEN [price |-> pyth,
          cache |-> [cache EXCEPT ![asset] = [price |-> pyth, ts |-> t]]]
    ELSE IF cache[asset].price # NoPrice
            /\ t - cache[asset].ts < CACHE_MAX_AGE_SECONDS
    THEN [price |-> cache[asset].price, cache |-> cache]
    ELSE [price |-> NoPrice, cache |-> cache]

-----------------------------------------------------------------------------
(* Volatility state (volatility_state.py, volatility_bootstrap.py) *)

NoState ==
    [present |-> FALSE, sigma2_1m |-> 0, last_close_1m |-> 0,
     last_update_ts |-> 0, lambda_val |-> 0]

\* initialize_state: reads lambda from governance, stores it in the state
InitializeState(sts, hist, asset, initial_sigma2, initial_close, timestamp) ==
    LET lambda_val == GetLambda(hist, asset)
    IN  IF lambda_val.exc # "none"
        THEN [exc |-> lambda_val.exc, states |-> sts]
        ELSE [exc |-> "none",
              states |-> [sts EXCEPT ![asset] =
                  [present |-> TRUE, sigma2_1m |-> initial_sigma2,
                   last_close_1m |-> initial_close, last_update_ts |-> timestamp,
                   lambda_val |-> lambda_val.val]]]

\* |log(new_close / last_close)| in 1e-6, by 2|a-b|/(a+b)
AbsLogReturn(new_close, last_close) ==
    (Abs(new_close - last_close) * 20000) \div ((new_close + last_close) \div 100)

\* the EWMA recurrence without the floor
EwmaUpdateNoFloor(lambda_val, sigma2_1m, r2_t) ==
    (lambda_val * sigma2_1m + (100 - lambda_val) * r2_t) \div 100

\* the EWMA recurrence of update_state with its floor
EwmaUpdate(lambda_val, sigma2_1m, r2_t) ==
    Max((lambda_val * sigma2_1m + (100 - lambda_val) * r2_t) \div 100, SIGMA2_FLOOR)

\* r_t ** 2 of update_state, in 1e-10
ScaledSquaredReturn(new_close, last_close, time_elapsed) ==
    LET r_total == IF last_close > 0 THEN AbsLogReturn(new_close, last_close) ELSE 0
        r2_total == (r_total * r_total) \div 100
    IN  IF time_elapsed > UPDATE_MIN_SECONDS
        THEN (r2_total * 60) \div time_elapsed
        ELSE r2_total

\* update_state skipping only the calls less than 10 seconds after the last update
UpdateStateShortWindow(sts, hist, asset, new_close, timestamp) ==
    LET state == sts[asset]
        time_elapsed == timestamp - state.last_update_ts
    IN  IF ~state.present
        THEN InitializeState(sts, hist, asset, UPDATE_DEFAULT_SIGMA2, new_close, timestamp)
        ELSE IF time_elapsed < 10
        THEN [exc |-> "none", states |-> sts]
        ELSE [exc |-> "none",
              states |-> [sts EXCEPT ![asset] =
                  [state EXCEPT
                     !.sigma2_1m = EwmaUpdate(state.lambda_val, state.sigma2_1m,
                                       ScaledSquaredReturn(new_close, state.last_close_1m,
                                                           time_elapsed)),
                     !.last_close_1m = new_close,
                     !.last_update_ts = timestamp]]]

UpdateState(sts, hist, asset, new_close, timestamp) ==
    LET state == sts[asset]
        time_elapsed == timestamp - state.last_update_ts
    IN  IF ~state.present
        THEN InitializeState(sts, hist, asset, UPDATE_DEFAULT_SIGMA2, new_close, timestamp)
        ELSE IF time_elapsed < UPDATE_MIN_SECONDS
        THEN [exc |-> "none", states |-> sts]
        ELSE [exc |-> "none",
              states |-> [sts EXCEPT ![asset] =
                  [state EXCEPT
                     !.sigma2_1m = EwmaUpdate(state.lambda_val, state.sigma2_1m,
                                       ScaledSquaredReturn(new_close, state.last_close_1m,
                                                           time_elapsed)),
                     !.last_close_1m = new_close,
                     !.last_update_ts = timestamp]]]

\* bootstrap_volatility_state's default_sigma2, 1e-6 for the others
BootstrapSigma2(asset) ==
    CASE asset = "BTC" -> 50000
      [] asset = "ETH" -> 80000
      [] asset = "SOL" -> 120000
      [] asset = "XAU" -> 20000
      [] OTHER -> 10000

\* ensure_state_initialized at time t when the feed answers pyth to its own fetch
EnsureStateInitialized(sts, cache, hist, asset, t, pyth) ==
    IF sts[asset].present
    THEN [exc |-> "none", initialized |-> TRUE, states |-> sts, cache |-> cache]
    ELSE LET fetched == FetchStartPrice(cache, asset, t, pyth)
             init == InitializeState(sts, hist, asset, BootstrapSigma2(asset),
                                     fetched.price, t)
         IN  IF fetched.price = NoPrice
             THEN [exc |-> "none", initialized |-> FALSE,
                   states |-> sts, cache |-> fetched.cache]
             ELSE [exc |-> init.exc, initialized |-> init.exc = "none",
                   states |-> init.states, cache |-> fetched.cache]

-----------------------------------------------------------------------------
(* Volatility-to-step converter and equity flattening *)

\* the daily cap convert_to_step_volatility uses
ConverterCapDaily(asset) ==
    IF asset \in DOMAIN SIGMA_CAP_DAILY THEN SIGMA_CAP_DAILY[asset] ELSE 10

\* sigma_cap_daily / sqrt(1440 / step_minutes), in 1e-8
StepCap(cap_daily, time_increment) ==
    cap_daily * ISqrt((time_increment * 1000000) \div 864) * 100

\* sqrt(sigma2_1m) * sqrt(step_minutes), in 1e-8
RawStepSigma(sigma2_1m, time_increment) ==
    ISqrt((sigma2_1m * 100 * time_increment) \div 60) * 100

ShrinkHigh(asset) == IF asset \in DOMAIN SHRINK_HIGH THEN SHRINK_HIGH[asset] ELSE 100

\* the conversion without the cap
ConvertWithCapUncapped(sigma2_1m, time_increment, cap_daily, shrink, is_hf) ==
    LET floored == Max(RawStepSigma(sigma2_1m, time_increment), SIGMA_STEP_FLOOR)
    IN  IF is_hf THEN (floored * shrink) \div 100 ELSE floored

ConvertWithCap(sigma2_1m, time_increment, cap_daily, shrink, is_high_frequency) ==
    LET capped == Min(RawStepSigma(sigma2_1m, time_increment),
                      StepCap(cap_daily, time_increment))
        floored == Max(capped, SIGMA_STEP_FLOOR)
    IN  IF is_high_frequency THEN (floored * shrink) \div 100 ELSE floored

ConvertToStepVolatility(sigma2_1m, time_increment, asset, is_high_frequency) ==
    ConvertWithCap(sigma2_1m, time_increment, ConverterCapDaily(asset),
                   ShrinkHigh(asset), is_high_frequency)

\* is_market_hours with the close at 21:00 counted as trading time
IsMarketHoursCloseInclusive(timestamp) ==
    LET weekday == (timestamp \div SECONDS_PER_DAY) % 7
        hour == (timestamp % SECONDS_PER_DAY) \div 3600
        minute == (timestamp % 3600) \div 60
    IN  /\ weekday < 5
        /\ ~(hour < 14)
        /\ ~(hour = 14 /\ minute < 30)
        /\ ~(hour > 21)
        /\ ~(hour = 21 /\ minute > 0)

\* time 0 of the model is a Monday 00:00 UTC
IsMarketHours(timestamp) ==
    LET weekday == (timestamp \div SECONDS_PER_DAY) % 7
        hour == (timestamp % SECONDS_PER_DAY) \div 3600
        minute == (timestamp % 3600) \div 60
    IN  /\ weekday < 5
        /\ ~(hour < 14)
        /\ ~(hour = 14 /\ minute < 30)
        /\ ~(hour > 21)
        /\ ~(hour = 21 /\ minute >= 0)

ApplyEquityFlattening(sigma_step, asset, start_time) ==
    IF asset \in EQUITY_ASSETS /\ ~IsMarketHours(start_time)
    THEN FLATTENED_SIGMA_STEP
    ELSE sigma_step

-----------------------------------------------------------------------------
(* Path generator (path_generator.py) *)

\* An ensemble of n paths is its path 0 and the set of the distinct paths among
\* paths 1..n-1.
Ensemble(n, path0, rest) == [n |-> n, path0 |-> path0, rest |-> rest]

AllPaths(e) == IF e.n >= 1 THEN {e.path0} \cup e.rest ELSE {}

FlatPath(v, len) == [i \in 1..len |-> v]

RoundTo8SignificantDigits(num) ==
    IF num = 0 \/ num = NonFinite THEN num
    ELSE LET d == NumDigits(num)
         IN  IF d <= MAX_DIGITS THEN num
             ELSE RoundHalfEven(num, Pow10(d - MAX_DIGITS))

RoundPath(path) == [i \in DOMAIN path |-> RoundTo8SignificantDigits(path[i])]

\* generate_path_0 with a drift of one cent per step
GeneratePath0Drifting(start_price, steps) ==
    [i \in 1..(steps + 1) |-> start_price + (i - 1)]

GeneratePath0(start_price, steps) == FlatPath(start_price, steps + 1)

\* What the random draw can make of start_price * exp(cumsum) after the first
\* point, whose cumulative return is 0: the start price again, a far finite
\* price, a price of ten digits, or an overflow to Inf.  The draws of the model
\* stay at or above one cent, where the floor np.maximum(paths, 1e-8) changes
\* nothing.
DrawShapes == {"flat", "far", "huge", "overflow"}

DrawSets == {{"far", "overflow"}, {"far", "huge"}}

DrawnPrice(shape, start_price) ==
    CASE shape = "flat" -> start_price
      [] shape = "far" -> 123456789
      [] shape = "huge" -> 1234567891
      [] OTHER -> NonFinite

\* generate_stochastic_paths: np.nan_to_num replaces a non-finite value
StochasticPath(shape, start_price, steps) ==
    [i \in 1..(steps + 1) |->
        LET raw == IF i = 1 THEN start_price ELSE DrawnPrice(shape, start_price)
        IN  IF raw = NonFinite THEN start_price ELSE raw]

GenerateStochasticPaths(hist, start_price, steps, sigma_step, asset, draw) ==
    LET df == GetStudentTDf(hist, asset)
    IN  IF df.exc # "none" THEN [exc |-> df.exc, paths |-> {}]
        ELSE IF df.val <= 0 THEN [exc |-> "ValueError", paths |-> {}]
        ELSE [exc |-> "none",
              paths |-> {StochasticPath(shape, start_price, steps) : shape \in draw}]

GenerateAllPaths(hist, start_price, steps, sigma_step, asset, num_simulations, draw) ==
    LET path_0 == GeneratePath0(start_price, steps)
        stochastic == GenerateStochasticPaths(hist, start_price, steps, sigma_step,
                                              asset, draw)
    IN  IF num_simulations # REQUIRED_SIMULATIONS
        THEN [exc |-> "ValueError", paths |-> Ensemble(0, << >>, {})]
        ELSE IF stochastic.exc # "none"
        THEN [exc |-> stochastic.exc, paths |-> Ensemble(0, << >>, {})]
        ELSE [exc |-> "none",
              paths |-> Ensemble(REQUIRED_SIMULATIONS,
                           RoundPath(path_0),
                           {RoundPath(sp) : sp \in stochastic.paths})]

\* generate_dummy_paths
GenerateDummyPaths(start_price, steps, num_simulations) ==
    Ensemble(num_simulations, FlatPath(start_price, steps + 1),
             IF num_simulations > 1 THEN {FlatPath(start_price, steps + 1)} ELSE {})

-----------------------------------------------------------------------------
(* Local validator (validator_core.py) *)

\* len(str(abs(x)).replace(".", "").lstrip("0") or "0") of the float x = c / 100,
\* whose repr is positional for 0.01 <= x < 1e16 and ends in ".0" for an integer
ReprDigitLen(c) ==
    LET int_part == c \div 100
        frac == c % 100
        frac_chars == IF frac % 10 = 0 THEN 1 ELSE 2
    IN  IF int_part > 0 THEN NumDigits(int_part) + frac_chars
        ELSE IF frac = 0 THEN 1
        ELSE NumDigits(StripTrailingZeros(frac))

PriceError(price) ==
    IF price = NonFinite THEN "nan_inf"
    ELSE IF price <= 0 THEN "not_positive"
    ELSE IF ReprDigitLen(price) > MAX_DIGITS THEN "too_many_digits"
    ELSE "none"

PathError(path, expected_path_length, start_price) ==
    LET bad == {j \in DOMAIN path : PriceError(path[j]) # "none"}
        first_bad == CHOOSE j \in bad : \A k \in bad : j <= k
    IN  IF Len(path) # expected_path_length THEN "wrong_length"
        ELSE IF bad # {} THEN PriceError(path[first_bad])
        ELSE IF Abs(path[1] - start_price) > start_price \div 100
        THEN "first_price_mismatch"
        ELSE "none"

\* validate_response_local: "none" for None, else the kind of the error message
ValidateResponseLocal(price_paths, simulation_input, start_price) ==
    LET steps == simulation_input.time_length \div simulation_input.time_increment
        errors == {PathError(path, steps + 1, start_price) :
                       path \in price_paths.rest} \ {"none"}
        error_0 == PathError(price_paths.path0, steps + 1, start_price)
    IN  IF price_paths.n # simulation_input.num_simulations
        THEN "wrong_number_of_paths"
        ELSE IF error_0 # "none" THEN error_0
        ELSE IF errors # {} THEN CHOOSE e \in errors : TRUE
        ELSE "none"

\* generate_safe_fallback_paths a cent above the start price
GenerateSafeFallbackPathsOffStart(start_price, steps, num_simulations) ==
    Ensemble(num_simulations, FlatPath(start_price + 1, steps + 1),
             IF num_simulations > 1 THEN {FlatPath(start_price + 1, steps + 1)} ELSE {})

\* generate_safe_fallback_paths
GenerateSafeFallbackPaths(start_price, steps, num_simulations) ==
    LET safe_price == IF start_price = NonFinite \/ start_price <= 0
                      THEN FALLBACK_START_PRICE ELSE start_price
    IN  Ensemble(num_simulations, FlatPath(safe_price, steps + 1),
                 IF num_simulations > 1 THEN {FlatPath(safe_price, steps + 1)} ELSE {})

\* format_response_tuple losing the last point of every path
FormatResponseTupleTruncated(price_paths, start_time, time_increment) ==
    [start_time_unix |-> start_time, time_increment |-> time_increment,
     n |-> price_paths.n,
     path0 |-> RoundPath(SubSeq(price_paths.path0, 1, Len(price_paths.path0) - 1)),
     rest |-> {RoundPath(SubSeq(path, 1, Len(path) - 1)) : path \in price_paths.rest}]

\* format_response_tuple: (start_time_unix, time_increment, path_1, ..., path_n)
FormatResponseTuple(price_paths, start_time, time_increment) ==
    [start_time_unix |-> start_time, time_increment |-> time_increment,
     n |-> price_paths.n,
     path0 |-> RoundPath(price_paths.path0),
     rest |-> {RoundPath(path) : path \in price_paths.rest}]

-----------------------------------------------------------------------------
(* State persistence (state_persistence.py) *)

\* a file is its JSON text: complete when it ends where json.dump ends it
NoFile == [exists |-> FALSE, complete |-> FALSE, states |-> [a \in Assets |-> NoState]]

\* persist_state: the whole table goes to the file
PersistState(sts) == [exists |-> TRUE, complete |-> TRUE, states |-> sts]

\* reload_state: every state of the file replaces the one of the table; json.load
\* of a truncated file raises and the table is left alone
ReloadState(sts, file) ==
    IF ~file.exists \/ ~file.complete THEN sts
    ELSE [a \in DOMAIN sts |->
             IF file.states[a].present THEN file.states[a] ELSE sts[a]]

\* persist_if_needed at time t; io_ok is whether the write succeeds
PersistIfNeeded(lpt, file, sts, asset, t, force, io_ok) ==
    LET has_last == asset \in DOMAIN lpt
        forced == IF has_last
                  THEN force \/ t - lpt[asset] > FORCE_PERSIST_INTERVAL
                  ELSE TRUE
        too_soon == has_last /\ t - lpt[asset] < PERSIST_INTERVAL /\ ~forced
    IN  IF (forced \/ ~has_last) /\ ~too_soon /\ io_ok
        THEN [last_persist_time |-> [a \in DOMAIN lpt \cup {asset} |->
                                        IF a = asset THEN t ELSE lpt[a]],
              state_file |-> PersistState(sts)]
        ELSE [last_persist_time |-> lpt, state_file |-> file]

\* whether persist_if_needed reaches persist_state
PersistAttempted(lpt, asset, t) ==
    asset \notin DOMAIN lpt \/ t - lpt[asset] > FORCE_PERSIST_INTERVAL

-----------------------------------------------------------------------------
(* Prediction log (prediction_logger.py) *)

GetPromptLabel(time_increment, time_length) ==
    IF time_increment = 300 /\ time_length = 86400 THEN "low"
    ELSE IF time_increment = 60 /\ time_length = 3600 THEN "high"
    ELSE "unknown"

\* _should_log with the 15 minutes of the high profile for every label
ShouldLogOneInterval(llt, asset, prompt_label, current_time) ==
    LET key == <<asset, prompt_label>>
    IN  \/ key \notin DOMAIN llt
        \/ current_time - llt[key] >= HIGH_INTERVAL

ShouldLog(llt, asset, prompt_label, current_time) ==
    LET key == <<asset, prompt_label>>
        interval == IF prompt_label = "low" THEN LOW_INTERVAL ELSE HIGH_INTERVAL
    IN  \/ key \notin DOMAIN llt
        \/ current_time - llt[key] >= interval

\* log_prediction recording the first path only
LogPredictionFirstPathOnly(plog, llt, simulation_input, price_paths, config, request_time, t) ==
    LET asset == simulation_input.asset
        prompt_label == GetPromptLabel(simulation_input.time_increment,
                                       simulation_input.time_length)
        key == <<asset, prompt_label>>
        record == [t0 |-> simulation_input.start_time,
                   request_time |-> request_time,
                   asset |-> asset,
                   prompt |-> prompt_label,
                   time_increment |-> simulation_input.time_increment,
                   time_length |-> simulation_input.time_length,
                   num_simulations |-> simulation_input.num_simulations,
                   config_snapshot |-> config,
                   logged_at |-> t,
                   price_paths |-> Ensemble(1, price_paths.path0, {})]
    IN  IF ShouldLog(llt, asset, prompt_label, request_time)
        THEN [pred_log |-> Append(plog, record),
              last_logged_time |-> [k \in DOMAIN llt \cup {key} |->
                                       IF k = key THEN request_time ELSE llt[k]]]
        ELSE [pred_log |-> plog, last_logged_time |-> llt]

\* log_prediction with volatility_spike = equity_market_event = False
LogPrediction(plog, llt, simulation_input, price_paths, config, request_time, t) ==
    LET asset == simulation_input.asset
        prompt_label == GetPromptLabel(simulation_input.time_increment,
                                       simulation_input.time_length)
        key == <<asset, prompt_label>>
        record == [t0 |-> simulation_input.start_time,
                   request_time |-> request_time,
                   asset |-> asset,
                   prompt |-> prompt_label,
                   time_increment |-> simulation_input.time_increment,
                   time_length |-> simulation_input.time_length,
                   num_simulations |-> simulation_input.num_simulations,
                   config_snapshot |-> config,
                   logged_at |-> t,
                   price_paths |-> price_paths]
    IN  IF ShouldLog(llt, asset, prompt_label, request_time)
        THEN [pred_log |-> Append(plog, record),
              last_logged_time |-> [k \in DOMAIN llt \cup {key} |->
                                       IF k = key THEN request_time ELSE llt[k]]]
        ELSE [pred_log |-> plog, last_logged_time |-> llt]

-----------------------------------------------------------------------------
(* Request handler (request_handler.py) *)

Request(asset, start_time, time_increment, time_length, num_simulations) ==
    [asset |-> asset, start_time |-> start_time, time_increment |-> time_increment,
     time_length |-> time_length, num_simulations |-> num_simulations]

NoRequest == Request("", 0, 0, 0, 0)

NoEnsemble == Ensemble(0, << >>, {})

NoResponse == FormatResponseTuple(NoEnsemble, 0, 0)

\* the requests that can arrive at time t: <<time_increment, time_length>> of the
\* well-formed ones, with the anchor 20 seconds ahead
ValidProfiles == {<<300, 900>>}

Requests(t) ==
    {Request(a, t + 20, p[1], p[2], REQUIRED_SIMULATIONS) :
        a \in Assets, p \in ValidProfiles}
    \cup {Request("BTC", t, 300, 900, REQUIRED_SIMULATIONS),
          Request("BTC", t + 20, 300, 900, 999),
          Request("BTC", t + 20, 300, 100, REQUIRED_SIMULATIONS),
          Request("BTC", t + 20, 0, 900, REQUIRED_SIMULATIONS)}

\* the checks of the request without the check of steps
EntryErrorWithoutStepsCheck(simulation_input, request_time) ==
    IF simulation_input.time_increment = 0 THEN "request_parsing_failed"
    ELSE IF simulation_input.num_simulations # REQUIRED_SIMULATIONS
    THEN "expected_1000_simulations"
    ELSE IF request_time >= simulation_input.start_time THEN "request_too_late"
    ELSE "none"

\* parse_request and the checks of the request: "none", or why it is refused
EntryError(simulation_input, request_time) ==
    IF simulation_input.time_increment = 0 THEN "request_parsing_failed"
    ELSE IF simulation_input.num_simulations # REQUIRED_SIMULATIONS
    THEN "expected_1000_simulations"
    ELSE IF simulation_input.time_length \div simulation_input.time_increment <= 0
    THEN "invalid_steps"
    ELSE IF request_time >= simulation_input.start_time THEN "request_too_late"
    ELSE "none"

IdleHr ==
    [pc |-> "idle", req |-> NoRequest, request_time |-> 0, start_price |-> 0,
     price_paths |-> NoEnsemble, first_error |-> "none", converted |-> FALSE,
     sigma2_1m |-> 0, sigma_conv |-> 0, sigma_step |-> 0,
     response |-> NoResponse]

NoResult ==
    [kind |-> "none", reason |-> "none", req |-> NoRequest, start_price |-> 0,
     price_paths |-> NoEnsemble, first_error |-> "none", response |-> NoResponse,
     completed_at |-> 0]

ErrorResult(req, reason, t) ==
    [NoResult EXCEPT !.kind = "error", !.reason = reason, !.req = req,
                     !.completed_at = t]

\* the start price of the request: 1.0 when no price was fetched, rounded
StartPrice(fetched_price) ==
    RoundTo8SignificantDigits(IF fetched_price = NoPrice THEN FALLBACK_START_PRICE
                              ELSE fetched_price)

\* the table after the handler's update_state, skipped without state or price
UpdateWithStartPrice(ensured, hist, asset, start_price, t) ==
    IF ensured.initialized /\ start_price > 0
    THEN UpdateState(ensured.states, hist, asset, start_price, t).states
    ELSE ensured.states

\* equity flattening of the converted sigma, for the LOW prompt only
FlattenIfLow(req, is_high_frequency, sigma_conv) ==
    [sigma_conv |-> sigma_conv,
     sigma_step |-> IF ~is_high_frequency
                    THEN ApplyEquityFlattening(sigma_conv, req.asset, req.start_time)
                    ELSE sigma_conv]

IsHighFrequency(req) == req.time_increment = 60 /\ req.time_length = 3600

StepVolatility(req, sigma2_1m) ==
    FlattenIfLow(req, IsHighFrequency(req),
                 ConvertToStepVolatility(sigma2_1m, req.time_increment, req.asset,
                                         IsHighFrequency(req)))

\* the generated ensemble, or the dummy one of the two except branches
GeneratedOrDummy(req, start_price, initialized, generated) ==
    IF ~initialized \/ generated.exc # "none"
    THEN GenerateDummyPaths(start_price, req.time_length \div req.time_increment,
                            req.num_simulations)
    ELSE generated.paths

PricePaths(req, hist, start_price, initialized, sigma_step, draw) ==
    GeneratedOrDummy(req, start_price, initialized,
        GenerateAllPaths(hist, start_price, req.time_length \div req.time_increment,
                         sigma_step, req.asset, REQUIRED_SIMULATIONS, draw))

\* validation, fallback, second validation and format_response_tuple
ValidatedOrFallback(req, start_price, price_paths, validation_error, fallback) ==
    LET fallback_error == ValidateResponseLocal(fallback, req, start_price)
        final_paths == IF validation_error # "none" THEN fallback ELSE price_paths
    IN  [first_error |-> validation_error,
         error |-> IF validation_error # "none" /\ fallback_error # "none"
                   THEN "fallback_paths_also_invalid" ELSE "none",
         price_paths |-> final_paths,
         response |-> FormatResponseTuple(final_paths, req.start_time,
                                          req.time_increment)]

Validated(req, start_price, price_paths) ==
    ValidatedOrFallback(req, start_price, price_paths,
        ValidateResponseLocal(price_paths, req, start_price),
        GenerateSafeFallbackPaths(start_price, req.time_length \div req.time_increment,
                                  req.num_simulations))

ServeConverted(req, hist, draw, start_price, ensured, updated, persisted, vol) ==
    [exc |-> ensured.exc,
     states |-> updated,
     cache |-> ensured.cache,
     last_persist_time |-> persisted.last_persist_time,
     state_file |-> persisted.state_file,
     start_price |-> start_price,
     converted |-> ensured.initialized,
     sigma2_1m |-> IF ensured.initialized THEN updated[req.asset].sigma2_1m ELSE 0,
     sigma_conv |-> IF ensured.initialized THEN vol.sigma_conv ELSE 0,
     sigma_step |-> IF ensured.initialized THEN vol.sigma_step ELSE 0]
    @@ Validated(req, start_price,
                 PricePaths(req, hist, start_price, ensured.initialized,
                            vol.sigma_step, draw))

ServeUpdated(req, t, hist, lpt, file, draw, io_ok, start_price, ensured, updated) ==
    ServeConverted(req, hist, draw, start_price, ensured, updated,
        IF ensured.initialized
        THEN PersistIfNeeded(lpt, file, updated, req.asset, t, FALSE, io_ok)
        ELSE [last_persist_time |-> lpt, state_file |-> file],
        StepVolatility(req, updated[req.asset].sigma2_1m))

ServeEnsured(req, t, hist, lpt, file, draw, io_ok, start_price, ensured) ==
    ServeUpdated(req, t, hist, lpt, file, draw, io_ok, start_price, ensured,
                 UpdateWithStartPrice(ensured, hist, req.asset, start_price, t))

ServeFetched(req, t, sts, hist, lpt, file, pyth2, draw, io_ok, fetched) ==
    ServeEnsured(req, t, hist, lpt, file, draw, io_ok, StartPrice(fetched.price),
        EnsureStateInitialized(sts, fetched.cache, hist, req.asset, t, pyth2))

\* handle_request from the fetch of the start price to format_response_tuple, at
\* time t: pyth1 and pyth2 are the feed's answers to the handler's fetch and to the
\* fetch of ensure_state_initialized, draw the random draw, io_ok the disk write.
\* exc is the exception that leaves the handler, error its refusal.
Serve(req, t, sts, cache, hist, lpt, file, pyth1, pyth2, draw, io_ok) ==
    ServeFetched(req, t, sts, hist, lpt, file, pyth2, draw, io_ok,
                 FetchStartPrice(cache, req.asset, t, pyth1))

-----------------------------------------------------------------------------
(* Initial state: the process has started and constructed its components.  The *)
(* governance store loaded tuning_history.json: no tuning record, and the start *)
(* date an earlier run recorded, 20 seconds short of 14 days ago.               *)

LoadedStartDate == 20 - FIRST_TUNING_ELIGIBILITY_DAYS * SECONDS_PER_DAY

ProposalValues(parameter_name) ==
    CASE parameter_name = "lambda" -> {93}
      [] parameter_name = "df" -> {4}
      [] OTHER -> {2}

NoProposal ==
    [asset |-> "", parameter |-> "", new_value |-> 0, at |-> 0, exc |-> "none",
     ok |-> FALSE, reason |-> Reason("none", 0, 0)]

\* the callers that run concurrently with each other
Callers == {"c1", "c2"}

\* a caller outside any call; its locals are those of its last call
NoCall ==
    [pc |-> "idle", op |-> "none", asset |-> "", parameter |-> "", value |-> 0,
     timestamp |-> 0, exc |-> "none", ok |-> FALSE, reason |-> Reason("none", 0, 0),
     current |-> 0, local |-> NoState, ret |-> NoState]

IdleThreads == [c \in Callers |-> NoCall]

NoConv ==
    [called |-> FALSE, sigma2_1m |-> 0, time_increment |-> 0, asset |-> "",
     is_high_frequency |-> FALSE, sigma_step |-> 0]

\* no persist_state call in progress and no temporary file
NoTempFile == [pc |-> "idle", file |-> NoFile, snapshot |-> << >>, previous |-> NoFile]

\* no call of a price source yet
NoAttempts ==
    [source |-> "none", asset |-> "", at |-> 0, failures |-> 0, sent |-> 0,
     gave_up |-> FALSE, fresh |-> NoPrice, price |-> NoPrice]

NoQuery ==
    [called |-> FALSE, files |-> << >>, start_date |-> 0, end_date |-> 0,
     asset |-> "", prompt_label |-> "", predictions |-> << >>]

\* a horizon of a diagnostics report without statistics, a report without any
NoHorizon == [present |-> FALSE, mean |-> 0, count |-> 0]

NoDiagnostics ==
    [overall |-> [present |-> FALSE, mean_crps |-> 0],
     short |-> NoHorizon, long |-> NoHorizon,
     coverage |-> [present |-> FALSE, c95 |-> 0, count |-> 0]]

NoTuning ==
    [called |-> FALSE, diagnostics |-> NoDiagnostics, overrides |-> << >>,
     suggestions |-> << >>]

\* last_crps_replay is None
NeverReplayed == 0 - 1

NoScores == [results |-> << >>, last_crps_replay |-> NeverReplayed]

\* no generate_diagnostics_report call yet
NoReport ==
    [called |-> FALSE, crps_results |-> << >>,
     overall_statistics |-> [present |-> FALSE, mean_crps |-> [sum |-> 0, count |-> 0],
                             count |-> 0]]

\* the components with a background loop thread
Components == {"updater", "scheduler"}

\* no start() yet: the flag is down, no thread was created, no stop() is waiting
\* in join, the scheduler has run no task
NoLoop ==
    [running |-> FALSE, thread |-> 0, threads |-> << >>, joining |-> FALSE,
     deadline |-> 0, last_diagnostics |-> NeverReplayed,
     last_tuning_check |-> NeverReplayed, cycle |-> << >>, eligible_count |-> 0]

NoLoops == [c \in Components |-> NoLoop]

OthersIdle ==
    /\ temp_file = NoTempFile
    /\ attempts = NoAttempts
    /\ realized_cache = {}
    /\ log_files = << >>
    /\ query = NoQuery
    /\ score_store = NoScores
    /\ tuning = NoTuning
    /\ report = NoReport
    /\ loops = NoLoops

Init ==
    /\ now = 0
    /\ states = [a \in Assets |-> NoState]
    /\ price_cache = [a \in Assets |-> NoCache]
    /\ tuning_history = << >>
    /\ miner_start_date = LoadedStartDate
    /\ history_file = [miner_start_date |-> miner_start_date, records |-> << >>]
    /\ last_proposal = NoProposal
    /\ hr = IdleHr
    /\ result = NoResult
    /\ pred_log = << >>
    /\ last_logged_time = << >>
    /\ state_file = NoFile
    /\ last_persist_time = << >>
    /\ nreq = 0
    /\ nprop = 0
    /\ threads = IdleThreads
    /\ conv = NoConv
    /\ OthersIdle

\* time passes
Tick ==
    \E d \in TickSteps :
        /\ now + d <= MaxNow
        /\ now' = now + d
        /\ UNCHANGED <<states, price_cache, tuning_history, miner_start_date,
                       history_file, last_proposal, hr, result, pred_log,
                       last_logged_time, state_file, last_persist_time, nreq, nprop,
                       threads, conv, others>>

\* a call of propose_parameter_change, with its _save_history
Propose ==
    \E asset \in Assets, parameter_name \in Parameters :
      \E new_value \in ProposalValues(parameter_name) :
        LET out == ProposeParameterChange(tuning_history, miner_start_date, now,
                                          asset, parameter_name, new_value)
        IN  /\ nprop < MaxProposals
            /\ nprop' = nprop + 1
            /\ tuning_history' = out.hist
            /\ history_file' = IF out.ok
                               THEN [history_file EXCEPT !.records = out.hist]
                               ELSE history_file
            /\ last_proposal' = [asset |-> asset, parameter |-> parameter_name,
                                 new_value |-> new_value, at |-> now,
                                 exc |-> out.exc, ok |-> out.ok,
                                 reason |-> out.reason]
            /\ UNCHANGED <<now, states, price_cache, miner_start_date, hr, result,
                           pred_log, last_logged_time, state_file,
                           last_persist_time, nreq,
                           threads, conv, others>>

\* handle_request refuses the request at entry
HandleRequestRefuse ==
    \E req \in Requests(now) :
        /\ hr.pc = "idle"
        /\ nreq < MaxRequests
        /\ EntryError(req, now) # "none"
        /\ nreq' = nreq + 1
        /\ hr' = [IdleHr EXCEPT !.req = req, !.request_time = now]
        /\ result' = ErrorResult(req, EntryError(req, now), now)
        /\ UNCHANGED <<now, states, price_cache, tuning_history, miner_start_date,
                       history_file, last_proposal, pred_log, last_logged_time,
                       state_file, last_persist_time, nprop,
                       threads, conv, others>>

\* handle_request from entry to format_response_tuple, for the request req
ServeRequest(req) ==
      \E pyth1 \in PythOutcomes(req.asset), pyth2 \in PythOutcomes(req.asset),
         draw \in DrawSets, io_ok \in {TRUE} :
        /\ hr.pc = "idle"
        /\ nreq < MaxRequests
        /\ EntryError(req, now) = "none"
        \* the second fetch happens only without state, the feed does not move
        \* between the two fetches of one request, and the disk write succeeds
        /\ states[req.asset].present => pyth2 = NoPrice
        /\ pyth2 \in {NoPrice, pyth1} \/ pyth1 = NoPrice
        /\ \E out \in {Serve(req, now, states, price_cache, tuning_history,
                             last_persist_time, state_file, pyth1, pyth2, draw, io_ok)} :
             \E served \in {[IdleHr EXCEPT
                               !.req = req, !.request_time = now,
                               !.start_price = out.start_price,
                               !.price_paths = out.price_paths,
                               !.first_error = out.first_error,
                               !.converted = out.converted,
                               !.sigma2_1m = out.sigma2_1m,
                               !.sigma_conv = out.sigma_conv,
                               !.sigma_step = out.sigma_step]} :
                /\ nreq' = nreq + 1
                /\ states' = out.states
                /\ price_cache' = out.cache
                /\ last_persist_time' = out.last_persist_time
                /\ state_file' = out.state_file
                /\ hr' = IF out.exc # "none" \/ out.error # "none"
                         THEN served
                         ELSE [served EXCEPT !.pc = "final",
                                             !.response = out.response]
                /\ result' = IF out.exc # "none"
                             THEN [NoResult EXCEPT !.kind = "exception",
                                                   !.reason = out.exc, !.req = req,
                                                   !.completed_at = now]
                             ELSE IF out.error # "none"
                             THEN [ErrorResult(req, out.error, now) EXCEPT
                                      !.start_price = out.start_price,
                                      !.first_error = out.first_error]
                             ELSE NoResult
                /\ UNCHANGED <<now, tuning_history, miner_start_date, history_file,
                               last_proposal, pred_log, last_logged_time, nprop,
                               threads, conv, others>>

HandleRequestServe == \E req \in Requests(now) : ServeRequest(req)

\* the final timing check
HandleRequestFinalCheck ==
    /\ hr.pc = "final"
    /\ hr' = IF now >= hr.req.start_time
             THEN [hr EXCEPT !.pc = "idle"]
             ELSE [hr EXCEPT !.pc = "log"]
    /\ result' = IF now >= hr.req.start_time
                 THEN [ErrorResult(hr.req, "response_took_too_long", now) EXCEPT
                          !.start_price = hr.start_price,
                          !.first_error = hr.first_error]
                 ELSE result
    /\ UNCHANGED <<now, states, price_cache, tuning_history, miner_start_date,
                   history_file, last_proposal, pred_log, last_logged_time,
                   state_file, last_persist_time, nreq, nprop,
                   threads, conv, others>>

\* the prediction is logged and the response handed back
HandleRequestLogAndReturn ==
    LET asset == hr.req.asset
        df == GetStudentTDf(tuning_history, asset)
        config == [lambda |-> states[asset].lambda_val, df |-> df.val,
                   sigma_cap_daily |-> ConverterCapDaily(asset),
                   shrink_high |-> ShrinkHigh(asset)]
        logged == IF df.exc # "none"
                  THEN [pred_log |-> pred_log, last_logged_time |-> last_logged_time]
                  ELSE LogPrediction(pred_log, last_logged_time, hr.req, hr.price_paths,
                                     config, hr.request_time, now)
    IN  /\ hr.pc = "log"
        /\ pred_log' = logged.pred_log
        /\ last_logged_time' = logged.last_logged_time
        /\ hr' = [hr EXCEPT !.pc = "idle"]
        /\ result' = [kind |-> "response", reason |-> "none", req |-> hr.req,
                      start_price |-> hr.start_price, price_paths |-> hr.price_paths,
                      first_error |-> hr.first_error, response |-> hr.response,
                      completed_at |-> now]
        /\ UNCHANGED <<now, states, price_cache, tuning_history, miner_start_date,
                       history_file, last_proposal, state_file, last_persist_time,
                       nreq, nprop,
                       threads, conv, others>>

Next ==
    \/ Tick
    \/ Propose
    \/ HandleRequestRefuse
    \/ HandleRequestServe
    \/ HandleRequestFinalCheck
    \/ HandleRequestLogAndReturn

Spec == Init /\ [][Next]_vars

-----------------------------------------------------------------------------
(* Properties of the request handler *)

Steps(req) == req.time_length \div req.time_increment

ReturnedPaths(r) == {r.response.path0} \cup r.response.rest

\* C1: every response handle_request returns holds exactly 1000 paths, each of
\* steps+1 points, every point finite, positive and of at most 8 significant
\* digits, and every path starts within 1% of the start price of the request.
C1_ResponseValid ==
    result.kind = "response" =>
        /\ result.response.n = REQUIRED_SIMULATIONS
        /\ \A path \in ReturnedPaths(result) :
              /\ Len(path) = Steps(result.req) + 1
              /\ \A i \in DOMAIN path :
                    /\ path[i] # NonFinite
                    /\ path[i] > 0
                    /\ SignificantDigits(path[i]) <= MAX_DIGITS
              /\ 100 * Abs(path[1] - result.start_price) <= result.start_price

\* a response is returned whose ensemble holds a path that leaves the start price
C1_Witness ==
    /\ result.kind = "response"
    /\ \E path \in result.response.rest : path # result.response.path0

\* C2: handle_request always ends by returning a response or a named error;
\* no exception propagates out of it.
C2_NoExceptionPropagates ==
    /\ result.kind \in {"none", "response", "error"}
    /\ result.kind = "error" => result.reason # "none"

\* C3: no response is handed back at or after the anchor of its request.
C3_ResponseBeforeAnchor ==
    result.kind = "response" => result.completed_at < result.req.start_time

InvalidAtEntry(req, t) ==
    \/ req.num_simulations # REQUIRED_SIMULATIONS
    \/ req.time_increment # 0 /\ Steps(req) <= 0
    \/ t >= req.start_time

\* C4: a request with num_simulations # 1000, with steps <= 0 or with an anchor
\* not strictly in the future at entry is answered with (None, error), and the
\* volatility table, the price cache and the prediction log stay as they were.
C4_InvalidRequestRefused ==
    [][(nreq' = nreq + 1 /\ InvalidAtEntry(hr'.req, now)) =>
          /\ result'.kind = "error"
          /\ result'.req = hr'.req
          /\ result'.reason # "none"
          /\ states' = states
          /\ price_cache' = price_cache
          /\ pred_log' = pred_log]_vars

\* an invalid request has been refused by a handler that holds state, a cached
\* price and a logged prediction
C4_Witness ==
    /\ result.kind = "error"
    /\ InvalidAtEntry(result.req, result.completed_at)
    /\ \E a \in Assets : states[a].present /\ price_cache[a].price # NoPrice
    /\ pred_log # << >>

IsFlatFallback(e, start_price, steps) ==
    /\ e.n = REQUIRED_SIMULATIONS
    /\ \A path \in AllPaths(e) :
          Len(path) = steps + 1 /\ \A i \in DOMAIN path : path[i] = start_price

\* C5: an ensemble that fails local validation is replaced by the all-flat
\* fallback at the start price, which is validated again; when that fails too
\* the handler returns an error and no ensemble; no returned ensemble has failed
\* validate_response_local.
C5_FallbackOnValidationFailure ==
    /\ result.kind = "response" =>
          ValidateResponseLocal(result.price_paths, result.req,
                                result.start_price) = "none"
    /\ hr.first_error # "none" =>
          IF ValidateResponseLocal(hr.price_paths, hr.req, hr.start_price) = "none"
          THEN IsFlatFallback(hr.price_paths, hr.start_price, Steps(hr.req))
          ELSE /\ hr.pc = "idle"
               /\ result.kind = "error"
               /\ result.req = hr.req
               /\ result.reason = "fallback_paths_also_invalid"
               /\ result.price_paths = NoEnsemble
               /\ result.response = NoResponse

\* a response that carries the fallback after the generated ensemble failed
C5_Witness ==
    /\ result.kind = "response"
    /\ result.first_error # "none"
    /\ IsFlatFallback(result.price_paths, result.start_price, Steps(result.req))

\* C6: path 0 of every returned response is constant over its steps+1 points.
C6_Path0Constant ==
    result.kind = "response" =>
        /\ Len(result.response.path0) = Steps(result.req) + 1
        /\ \A i \in DOMAIN result.response.path0 :
              result.response.path0[i] = result.response.path0[1]

\* a response of the generator, made with a positive sigma_step
C6_Witness ==
    /\ result.kind = "response"
    /\ result.first_error = "none"
    /\ hr.req = result.req
    /\ hr.converted
    /\ hr.sigma_step > 0

-----------------------------------------------------------------------------
(* Properties of parameter governance and of its readers *)

\* C7: after a successful proposal, every read of the parameter for the asset
\* (get_current_parameter_value, get_lambda, get_student_t_df) returns new_value.
C7_ReadsReturnNewValue ==
    \A key \in DOMAIN tuning_history :
        /\ GetCurrentParameterValue(tuning_history, key[1], key[2])
              = Return(tuning_history[key].new_value)
        /\ key[2] = "lambda" =>
              GetLambda(tuning_history, key[1]) = Return(tuning_history[key].new_value)
        /\ key[2] = "df" =>
              GetStudentTDf(tuning_history, key[1]) = Return(tuning_history[key].new_value)

\* the lambda Governance holds for the asset: the tuned value, else the default
LambdaInEffect(hist, asset) ==
    IF Key(asset, "lambda") \in DOMAIN hist
    THEN hist[Key(asset, "lambda")].new_value
    ELSE DEFAULT_LAMBDA[asset]

\* C8: a state-changing update of an asset that has state applies the lambda
\* Governance holds at the time of the call.
C8_UpdateUsesLambdaInEffect ==
    [][\A a \in Assets :
          (states[a].present /\ states'[a] # states[a]) =>
              states'[a].sigma2_1m =
                  EwmaUpdate(LambdaInEffect(tuning_history, a), states[a].sigma2_1m,
                             ScaledSquaredReturn(states'[a].last_close_1m,
                                                 states[a].last_close_1m,
                                                 states'[a].last_update_ts
                                                    - states[a].last_update_ts))]_vars

\* the daily cap Governance holds for the asset: the tuned value, else the default
CapInEffect(hist, asset) ==
    IF Key(asset, "sigma_cap_daily") \in DOMAIN hist
    THEN hist[Key(asset, "sigma_cap_daily")].new_value
    ELSE SIGMA_CAP_DAILY[asset]

\* C9: convert_to_step_volatility caps sigma_step with the daily cap Governance
\* holds for the asset, the new value after a successful proposal.
C9_ConverterUsesGovernanceCap ==
    [][(nreq' = nreq + 1 /\ hr'.converted) =>
          hr'.sigma_conv = ConvertWithCap(hr'.sigma2_1m, hr'.req.time_increment,
                                          CapInEffect(tuning_history, hr'.req.asset),
                                          ShrinkHigh(hr'.req.asset),
                                          IsHighFrequency(hr'.req))]_vars

\* a first proposal for a never-tuned key, made before 14 days have elapsed
EarlyFirstProposal ==
    /\ nprop' = nprop + 1
    /\ Key(last_proposal'.asset, last_proposal'.parameter) \notin DOMAIN tuning_history
    /\ now - miner_start_date < FIRST_TUNING_ELIGIBILITY_DAYS * SECONDS_PER_DAY

EarlyFirstProposalRejected ==
    /\ last_proposal'.exc = "none"
    /\ ~last_proposal'.ok
    /\ tuning_history' = tuning_history
    /\ history_file' = history_file

\* C10 as stated: such a proposal is rejected, the key stays never-tuned, and the
\* reason cites the days that remain of the 14.
C10_ReasonCitesRemainingDays ==
    [][EarlyFirstProposal =>
          /\ EarlyFirstProposalRejected
          /\ FIRST_TUNING_ELIGIBILITY_DAYS - Days(now - miner_start_date)
                \in {last_proposal'.reason.a, last_proposal'.reason.b}]_vars

\* C10, amended: such a proposal is rejected, the key stays never-tuned, and the
\* reason cites the 14 days required and the whole days elapsed since the start.
C10_EarlyFirstProposalRejected ==
    [][EarlyFirstProposal =>
          /\ EarlyFirstProposalRejected
          /\ last_proposal'.reason =
                Reason("first_tuning_requires_days", FIRST_TUNING_ELIGIBILITY_DAYS,
                       Days(now - miner_start_date))]_vars

\* a first proposal has been rejected for being early
C10_Witness ==
    /\ nprop > 0
    /\ ~last_proposal.ok
    /\ last_proposal.reason.rule = "first_tuning_requires_days"
    /\ tuning_history = << >>

-----------------------------------------------------------------------------
(* Parameter governance over weeks: proposals made at chosen instants, by the  *)
(* tuning script or the replay, against a store that starts with no tuning     *)
(* record and a start date either loaded (14 days old) or set at construction. *)

GovMaxProposals == 2

GovAssets == {"BTC", "SOL", "SPYX", "DOGE"}

DaysInSeconds(n) == n * SECONDS_PER_DAY

\* the instants around the eligibility thresholds
GovTimes ==
    {0, DaysInSeconds(14) - 1, DaysInSeconds(14), DaysInSeconds(30) - 1,
     DaysInSeconds(30), DaysInSeconds(44) - 1, DaysInSeconds(44), DaysInSeconds(58)}

GovStartDates == {0 - DaysInSeconds(FIRST_TUNING_ELIGIBILITY_DAYS), 0}

\* proposed values: at, one unit beyond and inside the static bounds
GovProposalValues(parameter_name) ==
    CASE parameter_name = "lambda" -> {79, 80, 93, 95, 99, 100}
      [] parameter_name = "df" -> {2, 3, 4, 50, 51}
      [] OTHER -> {0, 1, 3, 19, 20, 21}

GovInit ==
    /\ now = 0
    /\ states = [a \in Assets |-> NoState]
    /\ price_cache = [a \in Assets |-> NoCache]
    /\ tuning_history = << >>
    /\ miner_start_date \in GovStartDates
    /\ history_file = [miner_start_date |-> miner_start_date, records |-> << >>]
    /\ last_proposal = NoProposal
    /\ hr = IdleHr
    /\ result = NoResult
    /\ pred_log = << >>
    /\ last_logged_time = << >>
    /\ state_file = NoFile
    /\ last_persist_time = << >>
    /\ nreq = 0
    /\ nprop = 0
    /\ threads = IdleThreads
    /\ conv = NoConv
    /\ OthersIdle

\* time passes to a later instant
GovTick ==
    \E t \in GovTimes :
        /\ t > now
        /\ now' = t
        /\ UNCHANGED <<states, price_cache, tuning_history, miner_start_date,
                       history_file, last_proposal, hr, result, pred_log,
                       last_logged_time, state_file, last_persist_time, nreq, nprop,
                       threads, conv, others>>

\* a call of propose_parameter_change, with its _save_history
GovPropose ==
    \E asset \in GovAssets, parameter_name \in Parameters :
      \E new_value \in GovProposalValues(parameter_name) :
        /\ nprop < GovMaxProposals
        /\ \E out \in {ProposeParameterChange(tuning_history, miner_start_date, now,
                                             asset, parameter_name, new_value)} :
             /\ nprop' = nprop + 1
             /\ tuning_history' = out.hist
             /\ history_file' = IF out.ok
                                THEN [history_file EXCEPT !.records = out.hist]
                                ELSE history_file
             /\ last_proposal' = [asset |-> asset, parameter |-> parameter_name,
                                  new_value |-> new_value, at |-> now,
                                  exc |-> out.exc, ok |-> out.ok,
                                  reason |-> out.reason]
        /\ UNCHANGED <<now, states, price_cache, miner_start_date, hr, result,
                       pred_log, last_logged_time, state_file,
                       last_persist_time, nreq, threads, conv, others>>

GovNext ==
    \/ GovTick
    \/ GovPropose

GovSpec == GovInit /\ [][GovNext]_vars

-----------------------------------------------------------------------------
(* Properties of propose_parameter_change *)

\* the key of the proposal made in this step
ProposedKey == Key(last_proposal'.asset, last_proposal'.parameter)

\* a proposal is made in this step
ProposalMade == nprop' = nprop + 1

\* the proposal made in this step is returned as a rejection, nothing recorded
ProposalRejected ==
    /\ last_proposal'.exc = "none"
    /\ ~last_proposal'.ok
    /\ tuning_history' = tuning_history
    /\ history_file' = history_file

\* the key of the proposal made in this step is eligible and its value readable
ProposedKeyEligible ==
    /\ IsTuningEligible(tuning_history, miner_start_date, now,
                        last_proposal'.asset, last_proposal'.parameter).eligible
    /\ GetCurrentParameterValue(tuning_history, last_proposal'.asset,
                                last_proposal'.parameter).exc = "none"
    /\ ~GetCurrentParameterValue(tuning_history, last_proposal'.asset,
                                 last_proposal'.parameter).none

\* the value the proposal made in this step is measured against
ProposedKeyCurrent ==
    GetCurrentParameterValue(tuning_history, last_proposal'.asset,
                             last_proposal'.parameter).val

\* C11: after a successful change to a key, a proposal for that key made before
\* 30 + 14 days have elapsed since the change is found not eligible and rejected.
C11_RejectedWithinIntervalPlusObservation ==
    [][(/\ ProposalMade
        /\ ProposedKey \in DOMAIN tuning_history
        /\ now - tuning_history[ProposedKey].date
              < DaysInSeconds(MIN_TIME_BETWEEN_TUNINGS_DAYS
                              + POST_TUNING_OBSERVATION_DAYS))
       => /\ ProposalRejected
          /\ ~IsTuningEligible(tuning_history, miner_start_date, now,
                               last_proposal'.asset,
                               last_proposal'.parameter).eligible]_vars

\* C12: for an eligible key, a proposal exactly at the lower or upper static bound
\* and no more than the maximum step away from the current value is accepted, and
\* a proposal one unit beyond either bound is rejected as out of bounds.
C12_BoundsInclusive ==
    [][(ProposalMade /\ ProposedKeyEligible) =>
          LET bounds == GetParameterBounds(last_proposal'.parameter)
              new_value == last_proposal'.new_value
          IN  /\ (/\ new_value \in {bounds[1], bounds[2]}
                  /\ Abs(new_value - ProposedKeyCurrent)
                        <= GetMaxStepSize(last_proposal'.parameter))
                 => last_proposal'.ok
              /\ new_value \in {bounds[1] - 1, bounds[2] + 1}
                 => /\ ProposalRejected
                    /\ last_proposal'.reason.rule = "out_of_bounds"]_vars

\* C13: for an eligible key and a value inside the static bounds, a proposal more
\* than the maximum step away from the current value is rejected for its step
\* size, and a proposal exactly the maximum step away is not.
C13_StepSizeLimit ==
    [][(ProposalMade /\ ProposedKeyEligible) =>
          LET bounds == GetParameterBounds(last_proposal'.parameter)
              new_value == last_proposal'.new_value
              step == Abs(new_value - ProposedKeyCurrent)
              max_step == GetMaxStepSize(last_proposal'.parameter)
          IN  (new_value >= bounds[1] /\ new_value <= bounds[2]) =>
                 /\ step > max_step
                    => /\ ProposalRejected
                       /\ last_proposal'.reason.rule = "step_size_exceeds_max"
                 /\ step = max_step
                    => last_proposal'.reason.rule # "step_size_exceeds_max"]_vars

\* the reasons a rejection gives
RejectionRules ==
    {"first_tuning_requires_days", "min_days_between_tunings", "observation_period",
     "unknown_parameter", "out_of_bounds", "step_size_exceeds_max"}

\* C14: a rejected proposal returns (False, reason) with the reason of the rule it
\* broke and leaves the history, the saved file and every current value as they
\* were; an accepted proposal records the proposed value itself, never a clamped
\* one.
C14_RejectionLeavesStoreUnchanged ==
    [][ProposalMade =>
          /\ (last_proposal'.exc = "none" /\ ~last_proposal'.ok)
             => /\ last_proposal'.reason.rule \in RejectionRules
                /\ tuning_history' = tuning_history
                /\ history_file' = history_file
                /\ miner_start_date' = miner_start_date
                /\ \A a \in GovAssets, q \in Parameters :
                      GetCurrentParameterValue(tuning_history', a, q)
                         = GetCurrentParameterValue(tuning_history, a, q)
          /\ last_proposal'.ok
             => /\ tuning_history'[ProposedKey].new_value = last_proposal'.new_value
                /\ last_proposal'.new_value
                      >= GetParameterBounds(last_proposal'.parameter)[1]
                /\ last_proposal'.new_value
                      <= GetParameterBounds(last_proposal'.parameter)[2]
          /\ tuning_history' # tuning_history => last_proposal'.ok]_vars

\* an out-of-bounds proposal has been rejected while the store holds a record
C14_Witness ==
    /\ nprop > 1
    /\ last_proposal.exc = "none"
    /\ ~last_proposal.ok
    /\ last_proposal.reason.rule = "out_of_bounds"
    /\ tuning_history # << >>
    /\ history_file.records = tuning_history

\* C15: two accepted changes to parameters of the same asset, the same parameter
\* or different ones, are at least 30 days apart.
C15_OnceAMonthPerAsset ==
    [][(ProposalMade /\ last_proposal'.ok) =>
          \A key \in DOMAIN tuning_history :
             key[1] = last_proposal'.asset =>
                now - tuning_history[key].date
                   >= DaysInSeconds(MIN_TIME_BETWEEN_TUNINGS_DAYS)]_vars

-----------------------------------------------------------------------------
(* Two callers in propose_parameter_change at once on one governance store.   *)
(* The method takes no lock: a caller can be preempted between its checks     *)
(* (lines 209-232) and its write (lines 234-245).                             *)

GovRaceInit ==
    /\ GovInit
    /\ miner_start_date = 0 - DaysInSeconds(FIRST_TUNING_ELIGIBILITY_DAYS)

\* a caller enters propose_parameter_change and runs its checks
RaceProposeCheck ==
    \E c \in Callers, asset \in GovAssets, parameter_name \in Parameters :
      \E new_value \in GovProposalValues(parameter_name) :
        /\ threads[c].pc = "idle"
        /\ \E out \in {ProposeParameterChange(tuning_history, miner_start_date, now,
                                             asset, parameter_name, new_value)} :
             threads' = [threads EXCEPT ![c] =
                 [NoCall EXCEPT
                    !.pc = IF out.ok THEN "record" ELSE "done",
                    !.op = "propose", !.asset = asset, !.parameter = parameter_name,
                    !.value = new_value, !.timestamp = now,
                    !.exc = out.exc,
                    !.reason = IF out.ok THEN Reason("none", 0, 0) ELSE out.reason,
                    !.current = IF out.ok THEN out.reason.a ELSE 0]]
        /\ UNCHANGED <<now, states, price_cache, tuning_history, miner_start_date,
                       history_file, last_proposal, hr, result, pred_log,
                       last_logged_time, state_file, last_persist_time, nreq, nprop,
                       conv, others>>

\* the caller records the tuning, saves the history and returns
RaceProposeRecord ==
    \E c \in Callers :
        /\ threads[c].pc = "record"
        /\ tuning_history' =
              [k \in DOMAIN tuning_history
                       \cup {Key(threads[c].asset, threads[c].parameter)} |->
                  IF k = Key(threads[c].asset, threads[c].parameter)
                  THEN TuningRecord(now, threads[c].asset, threads[c].parameter,
                                    threads[c].current, threads[c].value)
                  ELSE tuning_history[k]]
        /\ history_file' = [history_file EXCEPT !.records = tuning_history']
        /\ threads' = [threads EXCEPT ![c] =
              [@ EXCEPT !.pc = "done", !.ok = TRUE,
                        !.reason = Reason("recorded", threads[c].current,
                                          threads[c].value)]]
        /\ UNCHANGED <<now, states, price_cache, miner_start_date, last_proposal,
                       hr, result, pred_log, last_logged_time, state_file,
                       last_persist_time, nreq, nprop, conv, others>>

GovRaceNext ==
    \/ RaceProposeCheck
    \/ RaceProposeRecord

GovRaceSpec == GovRaceInit /\ [][GovRaceNext]_vars

\* what the store and the two callers are left with when caller c runs its whole
\* call before caller d starts, from the initial store
SerialProposals(c, d) ==
    LET first == ProposeParameterChange(<< >>, miner_start_date, threads[c].timestamp,
                                        threads[c].asset, threads[c].parameter,
                                        threads[c].value)
        second == ProposeParameterChange(first.hist, miner_start_date,
                                         threads[d].timestamp, threads[d].asset,
                                         threads[d].parameter, threads[d].value)
    IN  [hist |-> second.hist, ok_first |-> first.ok, ok_second |-> second.ok]

\* C16: when two concurrent proposals for the same key have both returned, the
\* store and the two results are those of running the calls one after the other,
\* so the two are not both accepted.
C16_ProposalsSerializedPerKey ==
    \A c \in Callers, d \in Callers :
        (/\ c # d
         /\ threads[c].pc = "done" /\ threads[d].pc = "done"
         /\ threads[c].op = "propose" /\ threads[d].op = "propose"
         /\ Key(threads[c].asset, threads[c].parameter)
               = Key(threads[d].asset, threads[d].parameter))
        => /\ ~(threads[c].ok /\ threads[d].ok)
           /\ \/ /\ tuning_history = SerialProposals(c, d).hist
                 /\ threads[c].ok = SerialProposals(c, d).ok_first
                 /\ threads[d].ok = SerialProposals(c, d).ok_second
              \/ /\ tuning_history = SerialProposals(d, c).hist
                 /\ threads[d].ok = SerialProposals(d, c).ok_first
                 /\ threads[c].ok = SerialProposals(d, c).ok_second

-----------------------------------------------------------------------------
(* The volatility table under its operations: bootstrap, update_state from the *)
(* request handler and from the background updater, persist and reload.  Each  *)
(* call runs to its end before the next starts.                                *)

VolMaxNow == 60

VolTickSteps == {20, 30}

VolAssets == {"BTC"}

\* a state an earlier run persisted a minute before this one started
EarlierState(sigma2_1m) ==
    [present |-> TRUE, sigma2_1m |-> sigma2_1m, last_close_1m |-> 5000000,
     last_update_ts |-> 0 - 60, lambda_val |-> DEFAULT_LAMBDA["BTC"]]

\* the files an earlier run can have left: none, or the table with the variance
\* of BTC at its floor or at its bootstrap value
VolFiles ==
    {NoFile} \cup
    {PersistState([a \in Assets |->
                     IF a = "BTC" THEN EarlierState(sigma2_1m) ELSE NoState]) :
        sigma2_1m \in {SIGMA2_FLOOR, BootstrapSigma2("BTC")}}

VolInit ==
    /\ now = 0
    /\ states = [a \in Assets |-> NoState]
    /\ price_cache = [a \in Assets |-> NoCache]
    /\ tuning_history = << >>
    /\ miner_start_date = 0
    /\ history_file = [miner_start_date |-> miner_start_date, records |-> << >>]
    /\ last_proposal = NoProposal
    /\ hr = IdleHr
    /\ result = NoResult
    /\ pred_log = << >>
    /\ last_logged_time = << >>
    /\ state_file \in VolFiles
    /\ last_persist_time = << >>
    /\ nreq = 0
    /\ nprop = 0
    /\ threads = IdleThreads
    /\ conv = NoConv
    /\ OthersIdle

\* time passes
VolTick ==
    \E d \in VolTickSteps :
        /\ now + d <= VolMaxNow
        /\ now' = now + d
        /\ UNCHANGED <<states, price_cache, tuning_history, miner_start_date,
                       history_file, last_proposal, hr, result, pred_log,
                       last_logged_time, state_file, last_persist_time, nreq, nprop,
                       threads, conv, others>>

\* ensure_state_initialized: the bootstrap of an asset without state
VolEnsure ==
    \E asset \in VolAssets :
      \E pyth \in PythOutcomes(asset) :
        \E out \in {EnsureStateInitialized(states, price_cache, tuning_history,
                                          asset, now, pyth)} :
            /\ ~states[asset].present
            /\ states' = out.states
            /\ price_cache' = out.cache
            /\ UNCHANGED <<now, tuning_history, miner_start_date, history_file,
                           last_proposal, hr, result, pred_log, last_logged_time,
                           state_file, last_persist_time, nreq, nprop, threads, conv, others>>

\* a whole update_state call by the request handler or by the updater
VolUpdate ==
    \E c \in Callers, asset \in VolAssets :
      \E new_close \in PythPrices(asset) :
        \E out \in {UpdateState(states, tuning_history, asset, new_close, now)} :
            /\ states' = out.states
            /\ threads' = [threads EXCEPT ![c] =
                  [NoCall EXCEPT !.op = "update_state", !.asset = asset,
                                 !.value = new_close, !.timestamp = now,
                                 !.exc = out.exc, !.local = states[asset],
                                 !.ret = out.states[asset]]]
            /\ UNCHANGED <<now, price_cache, tuning_history, miner_start_date,
                           history_file, last_proposal, hr, result, pred_log,
                           last_logged_time, state_file, last_persist_time, nreq,
                           nprop, conv, others>>

\* persist_state
VolPersist ==
    /\ state_file' = PersistState(states)
    /\ state_file' # state_file
    /\ UNCHANGED <<now, states, price_cache, tuning_history, miner_start_date,
                   history_file, last_proposal, hr, result, pred_log,
                   last_logged_time, last_persist_time, nreq, nprop, threads, conv, others>>

\* reload_state
VolReload ==
    /\ states' = ReloadState(states, state_file)
    /\ states' # states
    /\ UNCHANGED <<now, price_cache, tuning_history, miner_start_date,
                   history_file, last_proposal, hr, result, pred_log,
                   last_logged_time, state_file, last_persist_time, nreq, nprop,
                   threads, conv, others>>

VolNext ==
    \/ VolTick
    \/ VolEnsure
    \/ VolUpdate
    \/ VolPersist
    \/ VolReload

VolSpec == VolInit /\ [][VolNext]_vars

-----------------------------------------------------------------------------
(* Properties of the volatility table *)

\* caller c makes an update_state call in this step
UpdateCallBy(c) ==
    /\ threads'[c] # threads[c]
    /\ threads'[c].op = "update_state"

\* the last call of caller d was an update_state on the asset less than 30 seconds
\* before or after the timestamp ts, and the table still holds what it returned
EarlierCallWithin30s(d, asset, ts) ==
    /\ threads[d].op = "update_state"
    /\ threads[d].asset = asset
    /\ Abs(ts - threads[d].timestamp) < UPDATE_MIN_SECONDS
    /\ states[asset] = threads[d].ret

\* C18 as stated: an update call whose timestamp is less than 30 seconds from
\* that of the call before it on the same asset leaves the state the earlier
\* call left.
C18_CallsWithin30sIdentical ==
    [][\A c \in Callers, d \in Callers :
          (UpdateCallBy(c)
           /\ EarlierCallWithin30s(d, threads'[c].asset, threads'[c].timestamp))
          => states'[threads'[c].asset] = threads[d].ret]_vars

\* C18, amended: the same, when the earlier call initialized or updated the state
\* itself (the state it returned carries its timestamp).
C18_CallWithin30sOfUpdateSkipped ==
    [][\A c \in Callers, d \in Callers :
          (UpdateCallBy(c)
           /\ EarlierCallWithin30s(d, threads'[c].asset, threads'[c].timestamp)
           /\ threads[d].ret.last_update_ts = threads[d].timestamp)
          => states'[threads'[c].asset] = threads[d].ret]_vars

\* a call with another price, 20 seconds after a call that updated the state,
\* has returned the state that call left
C18_Witness ==
    \E c \in Callers, d \in Callers :
        /\ threads[c].op = "update_state" /\ threads[d].op = "update_state"
        /\ threads[c].asset = threads[d].asset
        /\ threads[d].ret.last_update_ts = threads[d].timestamp
        /\ threads[d].local.present
        /\ threads[d].local # threads[d].ret
        /\ threads[c].timestamp - threads[d].timestamp \in 1..(UPDATE_MIN_SECONDS - 1)
        /\ threads[c].value # threads[d].value
        /\ threads[c].ret = threads[d].ret
        /\ states[threads[c].asset] = threads[c].ret

\* C19: the variance of every asset of the table is at least the floor 1e-8.
C19_VarianceAtLeastFloor ==
    \A a \in Assets : states[a].present => states[a].sigma2_1m >= SIGMA2_FLOOR

\* an update whose recurrence gave less than the floor has left the floor
C19_Witness ==
    \E c \in Callers :
        /\ threads[c].op = "update_state"
        /\ threads[c].local.present
        /\ threads[c].ret.last_update_ts = threads[c].timestamp
        /\ threads[c].local.last_update_ts # threads[c].timestamp
        /\ (threads[c].local.lambda_val * threads[c].local.sigma2_1m) \div 100
              < SIGMA2_FLOOR
        /\ threads[c].value = threads[c].local.last_close_1m
        /\ states[threads[c].asset] = threads[c].ret
        /\ states[threads[c].asset].sigma2_1m = SIGMA2_FLOOR

-----------------------------------------------------------------------------
(* update_state called at once by the request handler and by the updater      *)
(* thread on one table.  The method takes no lock: a caller can be preempted   *)
(* after it has read the state and computed the new variance, and between its  *)
(* three attribute stores (lines 176-178).  The table was reloaded at startup. *)

\* the table reload_all_states leaves at startup
ReloadedTable == ReloadState([a \in Assets |-> NoState], state_file)

VolRaceInit ==
    /\ now = 0
    /\ state_file \in VolFiles
    /\ states = ReloadedTable
    /\ price_cache = [a \in Assets |-> NoCache]
    /\ tuning_history = << >>
    /\ miner_start_date = 0
    /\ history_file = [miner_start_date |-> miner_start_date, records |-> << >>]
    /\ last_proposal = NoProposal
    /\ hr = IdleHr
    /\ result = NoResult
    /\ pred_log = << >>
    /\ last_logged_time = << >>
    /\ last_persist_time = << >>
    /\ nreq = 0
    /\ nprop = 0
    /\ threads = IdleThreads
    /\ conv = NoConv
    /\ OthersIdle

\* the timestamp a caller passes: the clock it read just before the call, or a
\* second earlier, before it fetched the price
CallTimestamps(t) == {t - 1, t}

\* a caller enters update_state: it reads the state, returns at once when the
\* call is within 30 seconds of the last update, and else computes the new state
RaceUpdateRead ==
    \E c \in Callers, asset \in VolAssets :
      \E new_close \in PythPrices(asset), timestamp \in CallTimestamps(now) :
        \E out \in {UpdateState(states, tuning_history, asset, new_close,
                                 timestamp)} :
            /\ threads[c].op = "none"
            /\ threads' = [threads EXCEPT ![c] =
                  [NoCall EXCEPT
                     !.pc = IF ~states[asset].present THEN "initialize"
                            ELSE IF out.states = states THEN "done"
                            ELSE "store_sigma2",
                     !.op = "update_state", !.asset = asset, !.value = new_close,
                     !.timestamp = timestamp, !.local = out.states[asset],
                     !.ret = IF out.states = states THEN states[asset] ELSE NoState]]
            /\ UNCHANGED <<now, states, price_cache, tuning_history, miner_start_date,
                           history_file, last_proposal, hr, result, pred_log,
                           last_logged_time, state_file, last_persist_time, nreq,
                           nprop, conv, others>>

\* initialize_state puts its new state in the table
RaceInitialize ==
    \E c \in Callers :
        /\ threads[c].pc = "initialize"
        /\ states' = [states EXCEPT ![threads[c].asset] = threads[c].local]
        /\ threads' = [threads EXCEPT ![c] =
              [@ EXCEPT !.pc = "done", !.ret = threads[c].local]]
        /\ UNCHANGED <<now, price_cache, tuning_history, miner_start_date,
                       history_file, last_proposal, hr, result, pred_log,
                       last_logged_time, state_file, last_persist_time, nreq, nprop,
                       conv, others>>

\* state.sigma2_1m = sigma2_new
RaceStoreSigma2 ==
    \E c \in Callers :
        /\ threads[c].pc = "store_sigma2"
        /\ states' = [states EXCEPT
              ![threads[c].asset].sigma2_1m = threads[c].local.sigma2_1m]
        /\ threads' = [threads EXCEPT ![c].pc = "store_close"]
        /\ UNCHANGED <<now, price_cache, tuning_history, miner_start_date,
                       history_file, last_proposal, hr, result, pred_log,
                       last_logged_time, state_file, last_persist_time, nreq, nprop,
                       conv, others>>

\* state.last_close_1m = new_close
RaceStoreClose ==
    \E c \in Callers :
        /\ threads[c].pc = "store_close"
        /\ states' = [states EXCEPT
              ![threads[c].asset].last_close_1m = threads[c].local.last_close_1m]
        /\ threads' = [threads EXCEPT ![c].pc = "store_ts"]
        /\ UNCHANGED <<now, price_cache, tuning_history, miner_start_date,
                       history_file, last_proposal, hr, result, pred_log,
                       last_logged_time, state_file, last_persist_time, nreq, nprop,
                       conv, others>>

\* state.last_update_ts = timestamp, and the call returns the state
RaceStoreTimestamp ==
    \E c \in Callers :
        /\ threads[c].pc = "store_ts"
        /\ states' = [states EXCEPT
              ![threads[c].asset].last_update_ts = threads[c].local.last_update_ts]
        /\ threads' = [threads EXCEPT ![c] =
              [@ EXCEPT !.pc = "done", !.ret = states'[threads[c].asset]]]
        /\ UNCHANGED <<now, price_cache, tuning_history, miner_start_date,
                       history_file, last_proposal, hr, result, pred_log,
                       last_logged_time, state_file, last_persist_time, nreq, nprop,
                       conv, others>>

VolRaceNext ==
    \/ RaceUpdateRead
    \/ RaceInitialize
    \/ RaceStoreSigma2
    \/ RaceStoreClose
    \/ RaceStoreTimestamp

VolRaceSpec == VolRaceInit /\ [][VolRaceNext]_vars

\* the state of the asset when caller c runs its whole call before caller d
\* starts, from the table as reloaded
SerialUpdates(c, d) ==
    UpdateState(UpdateState(ReloadedTable, tuning_history, threads[c].asset,
                            threads[c].value, threads[c].timestamp).states,
                tuning_history, threads[d].asset, threads[d].value,
                threads[d].timestamp).states[threads[d].asset]

\* C17: when two concurrent update calls on one asset have both returned, the
\* state of the asset (variance, last price, last update timestamp) is the one
\* that running the two calls one at a time, in one order or the other, leaves.
C17_UpdatesSerializedPerAsset ==
    \A c \in Callers, d \in Callers :
        (/\ c # d
         /\ threads[c].pc = "done" /\ threads[d].pc = "done"
         /\ threads[c].op = "update_state" /\ threads[d].op = "update_state"
         /\ threads[c].asset = threads[d].asset)
        => states[threads[c].asset] \in {SerialUpdates(c, d), SerialUpdates(d, c)}

-----------------------------------------------------------------------------
(* convert_to_step_volatility on its own: one call on arguments drawn from the *)
(* variances the table can hold, the step lengths of a request and the assets  *)
(* with and without a configured daily cap.                                    *)

\* variances in 1e-10: zero, the floor, and values around the caps
ConvVariances == {0, SIGMA2_FLOOR, 2000, 20000, 70000}

ConvTimeIncrements == {1, 60, 300}

ConvAssets == DOMAIN SIGMA_CAP_DAILY \cup {"DOGE"}

ConvInit ==
    /\ now = 0
    /\ states = [a \in Assets |-> NoState]
    /\ price_cache = [a \in Assets |-> NoCache]
    /\ tuning_history = << >>
    /\ miner_start_date = 0
    /\ history_file = [miner_start_date |-> miner_start_date, records |-> << >>]
    /\ last_proposal = NoProposal
    /\ hr = IdleHr
    /\ result = NoResult
    /\ pred_log = << >>
    /\ last_logged_time = << >>
    /\ state_file = NoFile
    /\ last_persist_time = << >>
    /\ nreq = 0
    /\ nprop = 0
    /\ threads = IdleThreads
    /\ OthersIdle
    /\ \E sigma2_1m \in ConvVariances, time_increment \in ConvTimeIncrements,
          asset \in ConvAssets, is_high_frequency \in BOOLEAN :
          conv = [NoConv EXCEPT !.sigma2_1m = sigma2_1m,
                                !.time_increment = time_increment,
                                !.asset = asset,
                                !.is_high_frequency = is_high_frequency]

\* the call of convert_to_step_volatility
Convert ==
    /\ ~conv.called
    /\ conv' = [conv EXCEPT
          !.called = TRUE,
          !.sigma_step = ConvertToStepVolatility(conv.sigma2_1m, conv.time_increment,
                                                 conv.asset, conv.is_high_frequency)]
    /\ UNCHANGED <<now, states, price_cache, tuning_history, miner_start_date,
                   history_file, last_proposal, hr, result, pred_log,
                   last_logged_time, state_file, last_persist_time, nreq, nprop,
                   threads, others>>

ConvNext == Convert

ConvSpec == ConvInit /\ [][ConvNext]_vars

\* the step cap of the call: daily_cap / sqrt(1440 / step_minutes)
ConvStepCap == StepCap(ConverterCapDaily(conv.asset), conv.time_increment)

-----------------------------------------------------------------------------
(* Requests for equities around the opening, the close and the weekend.  The  *)
(* feed has no equity, so an equity has a state only when reload_state read   *)
(* one from the state file; its closes are the handler's placeholder 1.0.     *)

EqAssets == {"SPYX"}

\* anchors: Monday 14:29:40, 14:30:00, 20:59:40, 21:00:00, 22:00:00 and
\* Saturday 15:00:00
EqAnchors == {52180, 52200, 75580, 75600, 79200, 5 * SECONDS_PER_DAY + 54000}

\* the requests arrive 20 seconds before their anchor
EqTimes == {a - 20 : a \in EqAnchors}

EqProfiles == ValidProfiles \cup {<<60, 3600>>}

EqRequests(t) ==
    {Request(a, t + 20, p[1], p[2], REQUIRED_SIMULATIONS) :
        a \in EqAssets, p \in EqProfiles}

EqEarlierState(asset) ==
    [present |-> TRUE, sigma2_1m |-> BootstrapSigma2(asset),
     last_close_1m |-> FALLBACK_START_PRICE, last_update_ts |-> 0 - 60,
     lambda_val |-> DEFAULT_LAMBDA[asset]]

EqFiles ==
    {NoFile,
     PersistState([a \in EqAssets |->
                     IF a \in EQUITY_ASSETS THEN EqEarlierState(a) ELSE NoState])}

EqInit ==
    /\ now = 52160
    /\ state_file \in EqFiles
    /\ states = ReloadState([a \in EqAssets |-> NoState], state_file)
    /\ price_cache = [a \in EqAssets |-> NoCache]
    /\ tuning_history = << >>
    /\ miner_start_date = 0
    /\ history_file = [miner_start_date |-> miner_start_date, records |-> << >>]
    /\ last_proposal = NoProposal
    /\ hr = IdleHr
    /\ result = NoResult
    /\ pred_log = << >>
    /\ last_logged_time = << >>
    /\ last_persist_time = << >>
    /\ nreq = 0
    /\ nprop = 0
    /\ threads = IdleThreads
    /\ conv = NoConv
    /\ OthersIdle

\* time passes
EqTick ==
    \E t \in EqTimes :
        /\ t > now
        /\ now' = t
        /\ UNCHANGED <<states, price_cache, tuning_history, miner_start_date,
                       history_file, last_proposal, hr, result, pred_log,
                       last_logged_time, state_file, last_persist_time, nreq, nprop,
                       threads, conv, others>>

EqServe == \E req \in EqRequests(now) : ServeRequest(req)

EqNext ==
    \/ EqTick
    \/ EqServe
    \/ HandleRequestFinalCheck
    \/ HandleRequestLogAndReturn

EqSpec == EqInit /\ [][EqNext]_vars

\* Monday to Friday, 14:30:00 inclusive to 21:00:00 exclusive UTC
InTradingCalendar(t) ==
    /\ (t \div SECONDS_PER_DAY) % 7 \in 0..4
    /\ t % SECONDS_PER_DAY >= 14 * 3600 + 30 * 60
    /\ t % SECONDS_PER_DAY < 21 * 3600

\* the last request reached generate_all_paths for an equity whose anchor is
\* outside the trading calendar
ClosedEquityGenerated ==
    /\ hr.converted
    /\ hr.req.asset \in EQUITY_ASSETS
    /\ ~InTradingCalendar(hr.req.start_time)

-----------------------------------------------------------------------------
(* Requests around the sampling intervals of the prediction log.  The assets *)
(* have no feed and no reloaded state: the responses are the dummy paths.    *)

LogAssets == {"SPYX", "TSLAX"}

\* request times: one second short of, and at, 15 and 30 minutes
LogTimes == {0, HIGH_INTERVAL - 1, HIGH_INTERVAL, LOW_INTERVAL - 1, LOW_INTERVAL}

\* the low, the high and an unlabelled profile
LogProfiles == {<<300, 86400>>, <<60, 3600>>} \cup ValidProfiles

LogRequests(t) ==
    {Request(a, t + 20, p[1], p[2], REQUIRED_SIMULATIONS) :
        a \in LogAssets, p \in LogProfiles}

LogInit ==
    /\ now = 0
    /\ states = [a \in LogAssets |-> NoState]
    /\ price_cache = [a \in LogAssets |-> NoCache]
    /\ tuning_history = << >>
    /\ miner_start_date = 0
    /\ history_file = [miner_start_date |-> miner_start_date, records |-> << >>]
    /\ last_proposal = NoProposal
    /\ hr = IdleHr
    /\ result = NoResult
    /\ pred_log = << >>
    /\ last_logged_time = << >>
    /\ state_file = NoFile
    /\ last_persist_time = << >>
    /\ nreq = 0
    /\ nprop = 0
    /\ threads = IdleThreads
    /\ conv = NoConv
    /\ OthersIdle

\* time passes
LogTick ==
    \E t \in LogTimes :
        /\ t > now
        /\ now' = t
        /\ UNCHANGED <<states, price_cache, tuning_history, miner_start_date,
                       history_file, last_proposal, hr, result, pred_log,
                       last_logged_time, state_file, last_persist_time, nreq, nprop,
                       threads, conv, others>>

LogServe == \E req \in LogRequests(now) : ServeRequest(req)

LogNext ==
    \/ LogTick
    \/ LogServe
    \/ HandleRequestFinalCheck
    \/ HandleRequestLogAndReturn

LogSpec == LogInit /\ [][LogNext]_vars

\* 30 minutes for the low profile, 15 minutes otherwise
SamplingInterval(prompt) == IF prompt = "low" THEN 30 * 60 ELSE 15 * 60

-----------------------------------------------------------------------------
(* Offline scoring: the prediction files, their query and the replay           *)
(* (prediction_logger.py, offline_crps/replay.py, automated_tuning.py)         *)

\* the model's months have 30 days
MONTH_DAYS == 30

MonthSeconds == MONTH_DAYS * SECONDS_PER_DAY

DayOf(t) == t \div SECONDS_PER_DAY

MonthOf(t) == t \div MonthSeconds

CRPS_REPLAY_DAYS == 7

\* a line json.loads rejects
CorruptLine ==
    [corrupt |-> TRUE, t0 |-> 0, asset |-> "", prompt |-> "", logged_at |-> 0]

\* the line log_prediction writes, by the fields the query and the replay read
RecordLine(t0, asset, prompt, logged_at) ==
    [corrupt |-> FALSE, t0 |-> t0, asset |-> asset, prompt |-> prompt,
     logged_at |-> logged_at]

\* open(storage_path, "a"), a line and its newline: the file is that of day
AppendLine(files, day, line) ==
    [d \in DOMAIN files \cup {day} |->
        IF d = day
        THEN Append(IF d \in DOMAIN files THEN files[d] ELSE << >>, line)
        ELSE files[d]]

\* the body of "for line in f" from line i on: json.loads raises on a corrupt
\* line and the except around the file ends the reading of that file
RECURSIVE ReadLines(_, _, _, _, _, _, _)
ReadLines(lines, i, start_date, end_date, asset, prompt_label, acc) ==
    IF i > Len(lines) THEN acc
    ELSE IF lines[i].corrupt THEN acc
    ELSE IF \/ lines[i].t0 < start_date \/ lines[i].t0 > end_date
            \/ asset # "" /\ lines[i].asset # asset
            \/ prompt_label # "" /\ lines[i].prompt # prompt_label
    THEN ReadLines(lines, i + 1, start_date, end_date, asset, prompt_label, acc)
    ELSE ReadLines(lines, i + 1, start_date, end_date, asset, prompt_label,
                   Append(acc, lines[i]))

\* the months the while loop visits: current_date is day 1 of the month of
\* start_date at start_date's time of day, then the same of each next month
MonthsVisited(start_date, end_date) ==
    {m \in MonthOf(start_date)..MonthOf(end_date) :
        m * MonthSeconds + (start_date % SECONDS_PER_DAY) <= end_date}

\* the files of the visited months, from day on, in the order of their days
RECURSIVE ReadFiles(_, _, _, _, _, _, _, _)
ReadFiles(files, day, last_day, start_date, end_date, asset, prompt_label, acc) ==
    IF day > last_day THEN acc
    ELSE ReadFiles(files, day + 1, last_day, start_date, end_date, asset,
                   prompt_label,
                   IF /\ day \in DOMAIN files
                      /\ day \div MONTH_DAYS \in MonthsVisited(start_date, end_date)
                   THEN ReadLines(files[day], 1, start_date, end_date, asset,
                                  prompt_label, acc)
                   ELSE acc)

\* get_logged_predictions; asset and prompt_label "" are None
GetLoggedPredictions(files, start_date, end_date, asset, prompt_label) ==
    ReadFiles(files, MonthOf(start_date) * MONTH_DAYS,
              (MonthOf(end_date) + 1) * MONTH_DAYS - 1,
              start_date, end_date, asset, prompt_label, << >>)

\* replay_prediction at time t: None (a sequence without result) when the
\* realized prices are missing or the label has no prompt config
ReplayPrediction(prediction_record, realized_ok, t) ==
    IF ~realized_ok \/ prediction_record.prompt \notin {"low", "high"}
    THEN << >>
    ELSE <<[prediction_id |-> prediction_record.logged_at,
            t0 |-> prediction_record.t0,
            asset |-> prediction_record.asset,
            prompt |-> prediction_record.prompt,
            replayed_at |-> t]>>

\* the loop of replay_all_predictions from prediction i on, save_crps_result
\* appending each result to the store; failed holds the predictions whose
\* realized prices are missing
RECURSIVE ReplayFrom(_, _, _, _, _)
ReplayFrom(predictions, i, failed, t, store) ==
    IF i > Len(predictions) THEN store
    ELSE ReplayFrom(predictions, i + 1, failed, t,
                    store \o ReplayPrediction(predictions[i], i \notin failed, t))

\* _run_crps_replay at time t
RunCrpsReplay(files, store, failed, t) ==
    ReplayFrom(GetLoggedPredictions(files, t - CRPS_REPLAY_DAYS * SECONDS_PER_DAY,
                                    t, "", ""),
               1, failed, t, store)

CRPS_REPLAY_INTERVAL_HOURS == 24

\* whether _run_loop runs the replay at time t
ReplayDue(last_crps_replay, t) ==
    \/ last_crps_replay = NeverReplayed
    \/ t - last_crps_replay >= CRPS_REPLAY_INTERVAL_HOURS * 3600

OffMaxLines == 2

OffAssets == {"BTC"}

\* the labels of the profiles that are logged: the low one and an unlabelled one
OffPrompts == {"low", "unknown"}

\* days 0, 1, 2 and 30
OffTimes == {0, SECONDS_PER_DAY, 2 * SECONDS_PER_DAY, MONTH_DAYS * SECONDS_PER_DAY}

\* the number of lines of the prediction files
LinesOf(files) ==
    LET RECURSIVE Sum(_)
        Sum(days) == IF days = {} THEN 0
                     ELSE LET d == CHOOSE x \in days : TRUE
                          IN  Len(files[d]) + Sum(days \ {d})
    IN  Sum(DOMAIN files)

OffInit ==
    /\ now = 0
    /\ states = [a \in Assets |-> NoState]
    /\ price_cache = [a \in Assets |-> NoCache]
    /\ tuning_history = << >>
    /\ miner_start_date = 0
    /\ history_file = [miner_start_date |-> miner_start_date, records |-> << >>]
    /\ last_proposal = NoProposal
    /\ hr = IdleHr
    /\ result = NoResult
    /\ pred_log = << >>
    /\ last_logged_time = << >>
    /\ state_file = NoFile
    /\ last_persist_time = << >>
    /\ nreq = 0
    /\ nprop = 0
    /\ threads = IdleThreads
    /\ conv = NoConv
    /\ OthersIdle

\* time passes
OffTick ==
    \E t \in OffTimes :
        /\ t > now
        /\ now' = t
        /\ UNCHANGED <<states, price_cache, tuning_history, miner_start_date,
                       history_file, last_proposal, hr, result, pred_log,
                       last_logged_time, state_file, last_persist_time, nreq, nprop,
                       threads, conv, others>>

\* log_prediction for a request received now, anchored 20 seconds ahead
OffLog ==
    \E asset \in OffAssets, prompt \in OffPrompts :
        /\ LinesOf(log_files) < OffMaxLines
        /\ ShouldLog(last_logged_time, asset, prompt, now) = TRUE
        /\ log_files' = AppendLine(log_files, DayOf(now + 20),
                                   RecordLine(now + 20, asset, prompt, now))
        /\ last_logged_time' =
              [k \in DOMAIN last_logged_time \cup {<<asset, prompt>>} |->
                  IF k = <<asset, prompt>> THEN now ELSE last_logged_time[k]]
        /\ UNCHANGED <<now, states, price_cache, tuning_history, miner_start_date,
                       history_file, last_proposal, hr, result, pred_log,
                       state_file, last_persist_time, nreq, nprop, threads, conv,
                       temp_file, attempts, realized_cache, query, score_store, tuning,
                   report, loops>>

\* a write of log_prediction that is cut short leaves a line json.loads rejects
OffCorrupt ==
    /\ LinesOf(log_files) < OffMaxLines
    /\ log_files' = AppendLine(log_files, DayOf(now + 20), CorruptLine)
    /\ UNCHANGED <<now, states, price_cache, tuning_history, miner_start_date,
                   history_file, last_proposal, hr, result, pred_log,
                   last_logged_time, state_file, last_persist_time, nreq, nprop,
                   threads, conv, temp_file, attempts, realized_cache, query, score_store, tuning,
                   report, loops>>

\* the ranges asked for start at 00:00 of day 0 or day 1 or at 01:00 of day 0,
\* and end at 00:00 of day 1, 2 or 30 or at 00:01 of day 30
OffStarts == {0, 3600, SECONDS_PER_DAY}

OffEnds == (OffTimes \ {0}) \cup {MonthSeconds + 60}

\* a call of get_logged_predictions
OffQuery ==
    \E start_date \in OffStarts, end_date \in OffEnds, asset \in {""} :
        /\ start_date < end_date
        /\ query' = [called |-> TRUE, files |-> log_files,
                     start_date |-> start_date, end_date |-> end_date,
                     asset |-> asset, prompt_label |-> "",
                     predictions |-> GetLoggedPredictions(log_files, start_date,
                                                          end_date, asset, "")]
        /\ UNCHANGED <<now, states, price_cache, tuning_history, miner_start_date,
                       history_file, last_proposal, hr, result, pred_log,
                       last_logged_time, state_file, last_persist_time, nreq, nprop,
                       threads, conv, temp_file, attempts, realized_cache, log_files, score_store,
                       tuning,
                   report, loops>>

\* the scheduler's replay, when due; the realized prices of the first prediction
\* may be missing
OffReplay ==
    \E failed \in {{}, {1}} :
        /\ ReplayDue(score_store.last_crps_replay, now)
        /\ score_store' = [results |-> RunCrpsReplay(log_files, score_store.results,
                                                     failed, now),
                           last_crps_replay |-> now]
        /\ UNCHANGED <<now, states, price_cache, tuning_history, miner_start_date,
                       history_file, last_proposal, hr, result, pred_log,
                       last_logged_time, state_file, last_persist_time, nreq, nprop,
                       threads, conv, temp_file, attempts, realized_cache, log_files, query, tuning,
                   report, loops>>

OffNext ==
    \/ OffTick
    \/ OffLog
    \/ OffCorrupt
    \/ OffQuery
    \/ OffReplay

OffSpec == OffInit /\ [][OffNext]_vars

\* line is a well-formed record the query q asks for
Wanted(q, line) ==
    /\ ~line.corrupt
    /\ q.start_date <= line.t0
    /\ line.t0 <= q.end_date
    /\ q.asset # "" => line.asset = q.asset
    /\ q.prompt_label # "" => line.prompt = q.prompt_label

\* C23: get_logged_predictions returns every well-formed record of the range it
\* is asked for, the records that follow a corrupt line in their file included,
\* whatever lines are corrupt and whatever partitions are missing.
C23_QueryReturnsEveryWellFormedRecord ==
    query.called =>
        \A day \in DOMAIN query.files : \A i \in DOMAIN query.files[day] :
            Wanted(query, query.files[day][i])
                => \E k \in DOMAIN query.predictions :
                      query.predictions[k] = query.files[day][i]

\* a prediction is identified by its logging time, asset and prompt label
Identity(r) == <<r.prediction_id, r.asset, r.prompt>>

\* C29: after any sequence of replay runs the score store holds at most one
\* result for each prediction.
C29_OneResultPerPrediction ==
    \A i \in DOMAIN score_store.results : \A j \in DOMAIN score_store.results :
        i # j => Identity(score_store.results[i]) # Identity(score_store.results[j])

-----------------------------------------------------------------------------
(* A checkpoint step by step, the updater changing the table meanwhile, and  *)
(* the process crashing and restarting (state_persistence.py)                *)

PersistMaxNow == 60

PersistTickSteps == {60}

\* the temporary file right after open(temp_file, "w")
TruncatedFile ==
    [exists |-> TRUE, complete |-> FALSE, states |-> [a \in Assets |-> NoState]]

\* json.dump writing the entry of asset into the state file itself
DumpEntryInPlace(temp, file, asset) ==
    [temp_file |-> [temp EXCEPT !.file.states[asset] = temp.snapshot[asset]],
     state_file |-> [TruncatedFile EXCEPT !.states[asset] = temp.snapshot[asset]]]

\* json.dump writing the entry of asset: it goes to the temporary file
DumpEntry(temp, file, asset) ==
    [temp_file |-> [temp EXCEPT !.file.states[asset] = temp.snapshot[asset]],
     state_file |-> file]

\* the entries of the snapshot json.dump has not written yet
Unwritten(temp) ==
    {a \in DOMAIN temp.snapshot :
        temp.snapshot[a].present /\ ~temp.file.states[a].present}

PersistInit ==
    /\ now = 0
    /\ state_file \in VolFiles
    /\ states = ReloadState([a \in Assets |-> NoState], state_file)
    /\ price_cache = [a \in Assets |-> NoCache]
    /\ tuning_history = << >>
    /\ miner_start_date = 0
    /\ history_file = [miner_start_date |-> miner_start_date, records |-> << >>]
    /\ last_proposal = NoProposal
    /\ hr = IdleHr
    /\ result = NoResult
    /\ pred_log = << >>
    /\ last_logged_time = << >>
    /\ last_persist_time = << >>
    /\ nreq = 0
    /\ nprop = 0
    /\ threads = IdleThreads
    /\ conv = NoConv
    /\ temp_file = [NoTempFile EXCEPT !.previous = state_file]
    /\ attempts = NoAttempts
    /\ realized_cache = {}
    /\ log_files = << >>
    /\ query = NoQuery
    /\ score_store = NoScores
    /\ tuning = NoTuning
    /\ report = NoReport
    /\ loops = NoLoops

\* time passes
PersistTick ==
    \E d \in PersistTickSteps :
        /\ now + d <= PersistMaxNow
        /\ now' = now + d
        /\ UNCHANGED <<states, price_cache, tuning_history, miner_start_date,
                       history_file, last_proposal, hr, result, pred_log,
                       last_logged_time, state_file, last_persist_time, nreq, nprop,
                       threads, conv, others>>

\* the updater thread's update_state with a fetched price
PersistUpdate ==
    \E asset \in Assets : \E price \in PythPrices(asset) :
        /\ temp_file.pc # "crashed"
        /\ states' = UpdateState(states, tuning_history, asset, price, now).states
        /\ states' # states
        /\ UNCHANGED <<now, price_cache, tuning_history, miner_start_date,
                       history_file, last_proposal, hr, result, pred_log,
                       last_logged_time, state_file, last_persist_time, nreq, nprop,
                       threads, conv, others>>

\* persist_state: get_all_states and the state_dict built from it
PersistSnapshot ==
    /\ temp_file.pc = "idle"
    /\ temp_file' = [temp_file EXCEPT !.pc = "dumped", !.snapshot = states,
                                      !.previous = state_file]
    /\ UNCHANGED <<now, states, price_cache, tuning_history, miner_start_date,
                   history_file, last_proposal, hr, result, pred_log,
                   last_logged_time, state_file, last_persist_time, nreq, nprop,
                   threads, conv, attempts, realized_cache, log_files, query, score_store, tuning,
                   report, loops>>

\* open(temp_file, "w")
PersistOpen ==
    /\ temp_file.pc = "dumped"
    /\ temp_file' = [temp_file EXCEPT !.pc = "open", !.file = TruncatedFile]
    /\ UNCHANGED <<now, states, price_cache, tuning_history, miner_start_date,
                   history_file, last_proposal, hr, result, pred_log,
                   last_logged_time, state_file, last_persist_time, nreq, nprop,
                   threads, conv, attempts, realized_cache, log_files, query, score_store, tuning,
                   report, loops>>

\* json.dump writes one more entry
PersistWrite ==
    \E asset \in Unwritten(temp_file) :
        /\ temp_file.pc = "open"
        /\ \E out \in {DumpEntry(temp_file, state_file, asset)} :
              /\ temp_file' = out.temp_file
              /\ state_file' = out.state_file
        /\ UNCHANGED <<now, states, price_cache, tuning_history, miner_start_date,
                       history_file, last_proposal, hr, result, pred_log,
                       last_logged_time, last_persist_time, nreq, nprop,
                       threads, conv, attempts, realized_cache, log_files, query, score_store, tuning,
                   report, loops>>

\* json.dump ends and the with block closes the temporary file
PersistClose ==
    /\ temp_file.pc = "open"
    /\ Unwritten(temp_file) = {}
    /\ temp_file' = [temp_file EXCEPT !.pc = "closed", !.file.complete = TRUE]
    /\ UNCHANGED <<now, states, price_cache, tuning_history, miner_start_date,
                   history_file, last_proposal, hr, result, pred_log,
                   last_logged_time, state_file, last_persist_time, nreq, nprop,
                   threads, conv, attempts, realized_cache, log_files, query, score_store, tuning,
                   report, loops>>

\* temp_file.replace(self.state_file)
PersistReplace ==
    /\ temp_file.pc = "closed"
    /\ state_file' = temp_file.file
    /\ temp_file' = [temp_file EXCEPT !.pc = "replaced", !.file = NoFile]
    /\ UNCHANGED <<now, states, price_cache, tuning_history, miner_start_date,
                   history_file, last_proposal, hr, result, pred_log,
                   last_logged_time, last_persist_time, nreq, nprop,
                   threads, conv, attempts, realized_cache, log_files, query, score_store, tuning,
                   report, loops>>

\* return True, or the except branch after open or a write raised
PersistReturn ==
    /\ temp_file.pc \in {"dumped", "open", "replaced"}
    /\ temp_file' = [temp_file EXCEPT !.pc = "idle"]
    /\ UNCHANGED <<now, states, price_cache, tuning_history, miner_start_date,
                   history_file, last_proposal, hr, result, pred_log,
                   last_logged_time, state_file, last_persist_time, nreq, nprop,
                   threads, conv, attempts, realized_cache, log_files, query, score_store, tuning,
                   report, loops>>

\* the process dies during the checkpoint: the table is gone, the files stay
PersistCrash ==
    /\ temp_file.pc \in {"dumped", "open", "closed", "replaced"}
    /\ temp_file' = [temp_file EXCEPT !.pc = "crashed"]
    /\ states' = [a \in Assets |-> NoState]
    /\ UNCHANGED <<now, price_cache, tuning_history, miner_start_date,
                   history_file, last_proposal, hr, result, pred_log,
                   last_logged_time, state_file, last_persist_time, nreq, nprop,
                   threads, conv, attempts, realized_cache, log_files, query, score_store, tuning,
                   report, loops>>

\* the process starts again: reload_state
PersistRestart ==
    /\ temp_file.pc = "crashed"
    /\ temp_file' = [temp_file EXCEPT !.pc = "idle"]
    /\ states' = ReloadState(states, state_file)
    /\ UNCHANGED <<now, price_cache, tuning_history, miner_start_date,
                   history_file, last_proposal, hr, result, pred_log,
                   last_logged_time, state_file, last_persist_time, nreq, nprop,
                   threads, conv, attempts, realized_cache, log_files, query, score_store, tuning,
                   report, loops>>

PersistNext ==
    \/ PersistTick
    \/ PersistUpdate
    \/ PersistSnapshot
    \/ PersistOpen
    \/ PersistWrite
    \/ PersistClose
    \/ PersistReplace
    \/ PersistReturn
    \/ PersistCrash
    \/ PersistRestart

PersistSpec == PersistInit /\ [][PersistNext]_vars

\* C24: at every point of a checkpoint, a crash included, the state file is the
\* complete file of the checkpoint before or the complete file of the table the
\* checkpoint took; it is never a partially written file.
C24_StateFilePreviousOrNew ==
    /\ state_file.exists => state_file.complete
    /\ \/ state_file = temp_file.previous
       \/ state_file = PersistState(temp_file.snapshot)

\* the process died while json.dump was writing a table of two entries that
\* differs from the checkpoint before, which is still the state file
C24_Witness ==
    /\ temp_file.pc = "crashed"
    /\ temp_file.file.exists
    /\ ~temp_file.file.complete
    /\ Unwritten(temp_file) # {}
    /\ Unwritten(temp_file) # {a \in Assets : temp_file.snapshot[a].present}
    /\ state_file.exists
    /\ state_file = temp_file.previous
    /\ state_file.states # temp_file.snapshot

-----------------------------------------------------------------------------
(* The equity requests with the scheduling the process guarantees: time      *)
(* passes and a request that was started is brought to its end; whether a    *)
(* request arrives is up to the validators.                                  *)

EqLiveSpec ==
    /\ EqSpec
    /\ WF_vars(EqTick)
    /\ WF_vars(HandleRequestFinalCheck)
    /\ WF_vars(HandleRequestLogAndReturn)

\* the time of the last successful checkpoint of this process
LastCheckpoint ==
    CHOOSE t \in {last_persist_time[a] : a \in DOMAIN last_persist_time} :
        \A a \in DOMAIN last_persist_time : last_persist_time[a] <= t

CheckpointOverdue ==
    /\ DOMAIN last_persist_time # {}
    /\ now - LastCheckpoint > FORCE_PERSIST_INTERVAL

-----------------------------------------------------------------------------
(* The calls of the two price sources (price_fetcher.py,                      *)
(* offline_crps/historical_price_fetcher.py).  A call of a source is given    *)
(* the answers the network would give to its successive HTTP requests; each   *)
(* call runs to its end.                                                      *)

STOP_AFTER_ATTEMPT == 5

PYTH_TOKEN_MAP == TOKEN_MAP \cup EQUITY_ASSETS

\* an answer of the network to one HTTP request: a positive price, a price
\* <= 0, a reply that is not 200, an exception (time-out, connection reset)
Answer(kind, value) == [kind |-> kind, value |-> value]

Transient(answer) == answer.kind \in {"status", "exception"}

\* the body of _fetch_price_from_pyth for one answer: every failure is logged
\* and returned as None, nothing is raised
FetchPriceFromPythBody(asset, answer) ==
    IF asset \notin TOKEN_MAP
    THEN [raised |-> FALSE, sent |-> 0, value |-> NoPrice]
    ELSE IF answer.kind = "price" /\ answer.value > 0
    THEN [raised |-> FALSE, sent |-> 1, value |-> answer.value]
    ELSE [raised |-> FALSE, sent |-> 1, value |-> NoPrice]

\* the body of fetch_realized_prices for one answer: None for an unsupported
\* asset, the cached array on a hit, else one request; the exceptions of
\* raise_for_status and of the request are caught and returned as None
FetchRealizedPricesBody(cache, asset, key, answer) ==
    IF asset \notin PYTH_TOKEN_MAP
    THEN [raised |-> FALSE, sent |-> 0, value |-> NoPrice, cache |-> cache]
    ELSE IF key \in cache
    THEN [raised |-> FALSE, sent |-> 0, value |-> 1, cache |-> cache]
    ELSE IF answer.kind = "price" /\ answer.value > 0
    THEN [raised |-> FALSE, sent |-> 1, value |-> 1, cache |-> cache \cup {key}]
    ELSE [raised |-> FALSE, sent |-> 1, value |-> NoPrice, cache |-> cache]

\* @retry(stop_after_attempt(stop)): the body is called again while it raised
\* and fewer than stop attempts were made; outcomes[i] is what attempt i gives
RECURSIVE Retry(_, _, _, _)
Retry(outcomes, attempt_number, stop, sent) ==
    LET outcome == outcomes[attempt_number]
    IN  IF ~outcome.raised
        THEN [raised |-> FALSE, attempts |-> attempt_number,
              sent |-> sent + outcome.sent, outcome |-> outcome]
        ELSE IF attempt_number >= stop
        THEN [raised |-> TRUE, attempts |-> attempt_number,
              sent |-> sent + outcome.sent, outcome |-> outcome]
        ELSE Retry(outcomes, attempt_number + 1, stop, sent + outcome.sent)

\* the decorated _fetch_price_from_pyth
FetchPriceFromPyth(asset, answers) ==
    Retry([i \in 1..STOP_AFTER_ATTEMPT |-> FetchPriceFromPythBody(asset, answers[i])],
          1, STOP_AFTER_ATTEMPT, 0)

\* the decorated fetch_realized_prices
FetchRealizedPrices(cache, asset, key, answers) ==
    Retry([i \in 1..STOP_AFTER_ATTEMPT |->
              FetchRealizedPricesBody(cache, asset, key, answers[i])],
          1, STOP_AFTER_ATTEMPT, 0)

\* the transient failures among the requests a call sent
RECURSIVE Failures(_, _)
Failures(answers, sent) ==
    IF sent = 0 THEN 0
    ELSE Failures(answers, sent - 1) + (IF Transient(answers[sent]) THEN 1 ELSE 0)

\* the last request a call sent failed transiently: the call returned on it
GaveUp(answers, sent) == sent > 0 /\ Transient(answers[sent])

FetchAssets == {"BTC", "SPYX"}

FetchTimes == {0, 1, 179, 180, 181}

\* the start times of the predictions whose realized prices are asked for
FetchStartTimes == {0}

\* the network fails transiently k times and then gives its answer
AnswerSeqs(asset) ==
    {[i \in 1..STOP_AFTER_ATTEMPT |-> IF i <= k THEN bad ELSE good] :
        k \in 0..STOP_AFTER_ATTEMPT,
        bad \in {Answer("status", 0), Answer("exception", 0)},
        good \in {Answer("price", p) : p \in {5000000, 5005000}}
                   \cup {Answer("price", 0 - 1)}}

FetchInit ==
    /\ now = 0
    /\ states = [a \in Assets |-> NoState]
    /\ price_cache = [a \in Assets \cup FetchAssets |-> NoCache]
    /\ tuning_history = << >>
    /\ miner_start_date = 0
    /\ history_file = [miner_start_date |-> miner_start_date, records |-> << >>]
    /\ last_proposal = NoProposal
    /\ hr = IdleHr
    /\ result = NoResult
    /\ pred_log = << >>
    /\ last_logged_time = << >>
    /\ state_file = NoFile
    /\ last_persist_time = << >>
    /\ nreq = 0
    /\ nprop = 0
    /\ threads = IdleThreads
    /\ conv = NoConv
    /\ OthersIdle

\* time passes
FetchTick ==
    \E t \in FetchTimes :
        /\ t > now
        /\ now' = t
        /\ UNCHANGED <<states, price_cache, tuning_history, miner_start_date,
                       history_file, last_proposal, hr, result, pred_log,
                       last_logged_time, state_file, last_persist_time, nreq, nprop,
                       threads, conv, others>>

\* a whole fetch_start_price call
FetchSpot ==
    \E asset \in FetchAssets :
      \E answers \in AnswerSeqs(asset) :
        \E fresh \in {FetchPriceFromPyth(asset, answers)} :
          \E out \in {FetchStartPrice(price_cache, asset, now, fresh.outcome.value)} :
            /\ price_cache' = out.cache
            /\ attempts' = [source |-> "spot", asset |-> asset, at |-> now,
                            failures |-> Failures(answers, fresh.sent),
                            sent |-> fresh.sent,
                            gave_up |-> GaveUp(answers, fresh.sent),
                            fresh |-> fresh.outcome.value,
                            price |-> out.price]
            /\ UNCHANGED <<now, states, tuning_history, miner_start_date,
                           history_file, last_proposal, hr, result, pred_log,
                           last_logged_time, state_file, last_persist_time, nreq,
                           nprop, threads, conv, temp_file, realized_cache,
                           log_files, query, score_store, tuning,
                   report, loops>>

\* a whole fetch_realized_prices call
FetchRealized ==
    \E asset \in FetchAssets, start_time \in FetchStartTimes :
      \E answers \in AnswerSeqs(asset) :
        \E out \in {FetchRealizedPrices(realized_cache, asset, <<asset, start_time>>,
                                        answers)} :
            /\ realized_cache' = out.outcome.cache
            /\ attempts' = [source |-> "realized", asset |-> asset, at |-> now,
                            failures |-> Failures(answers, out.sent),
                            sent |-> out.sent,
                            gave_up |-> GaveUp(answers, out.sent),
                            fresh |-> out.outcome.value,
                            price |-> out.outcome.value]
            /\ UNCHANGED <<now, states, price_cache, tuning_history,
                           miner_start_date, history_file, last_proposal, hr,
                           result, pred_log, last_logged_time, state_file,
                           last_persist_time, nreq, nprop, threads, conv,
                           temp_file, log_files, query, score_store, tuning,
                   report, loops>>

FetchNext ==
    \/ FetchTick
    \/ FetchSpot
    \/ FetchRealized

FetchSpec == FetchInit /\ [][FetchNext]_vars

\* a fetch_start_price call ends in this step
SpotCallEnds ==
    /\ attempts'.source = "spot"
    /\ <<attempts', price_cache'>> # <<attempts, price_cache>>

\* the cache entry a call for the asset finds is younger than the staleness bound
CacheUsable(asset) ==
    /\ price_cache[asset].price # NoPrice
    /\ now - price_cache[asset].ts < CACHE_MAX_AGE_SECONDS

\* C26: a fetch_start_price call whose fresh fetch failed or gave an invalid
\* value returns the cached price when that price is less than 180 s old and
\* no price otherwise; it never returns a cached price aged 180 s or more.
C26_StaleCacheRefused ==
    [][SpotCallEnds /\ attempts'.fresh = NoPrice
        => /\ CacheUsable(attempts'.asset)
              => attempts'.price = price_cache[attempts'.asset].price
           /\ ~CacheUsable(attempts'.asset) => attempts'.price = NoPrice
           /\ price_cache' = price_cache]_vars

\* a call at the staleness bound exactly found a cached price and returned none
C26_Witness ==
    /\ attempts.source = "spot"
    /\ attempts.fresh = NoPrice
    /\ attempts.price = NoPrice
    /\ price_cache[attempts.asset].price # NoPrice
    /\ attempts.at - price_cache[attempts.asset].ts = CACHE_MAX_AGE_SECONDS

\* C27: a call of a price source whose request failed transiently is retried:
\* the call returns on a transient failure only after 5 attempts, and it never
\* makes more than 5.
C27_TransientFailureRetried ==
    /\ attempts.sent <= STOP_AFTER_ATTEMPT
    /\ attempts.gave_up => attempts.sent = STOP_AFTER_ATTEMPT

-----------------------------------------------------------------------------
(* The request without spot price *)

\* no spot price was available for the request answered last: its asset has
\* no feed, so the fresh fetch failed, and the cache holds no price for it
NoSpotPrice ==
    /\ result.req.asset \notin TOKEN_MAP
    /\ price_cache[result.req.asset].price = NoPrice

-----------------------------------------------------------------------------
(* Tuning suggestions (parameter_governance.py, get_tuning_suggestions).      *)
(* Scores are in CRPS units, coverage rates in percent.                       *)

GOOD_CRPS_THRESHOLD == 50
HIGH_SHORT_CRPS_THRESHOLD == 100
HIGH_LONG_CRPS_THRESHOLD == 200
COVERAGE_LOW_THRESHOLD == 93
COVERAGE_HIGH_THRESHOLD == 97
MIN_DATA_POINTS == 10

\* a threshold argument left at None
NoThreshold == 0 - 1

NoOverrides ==
    [good_crps_threshold |-> NoThreshold, high_short_crps_threshold |-> NoThreshold,
     high_long_crps_threshold |-> NoThreshold, coverage_low_threshold |-> NoThreshold,
     coverage_high_threshold |-> NoThreshold, min_data_points |-> NoThreshold]

\* x if x is not None else self.x
Provided(argument, default) == IF argument # NoThreshold THEN argument ELSE default

Suggestion(parameter, direction, change) ==
    [asset |-> "ALL", parameter |-> parameter, direction |-> direction,
     change |-> change]

\* the suggestion of the short-horizon analysis, if any
ShortSuggestions(diagnostics, short_threshold, min_points) ==
    IF /\ diagnostics.short.present
       /\ diagnostics.short.mean > short_threshold
       /\ diagnostics.short.count >= min_points
    THEN <<Suggestion("lambda", "down", 0 - 1)>>
    ELSE << >>

\* the suggestion of the coverage analysis, if any
CoverageSuggestions(diagnostics, cov_low, cov_high) ==
    IF ~diagnostics.coverage.present THEN << >>
    ELSE IF diagnostics.coverage.c95 < cov_low
    THEN <<Suggestion("df", "down", 0 - 1)>>
    ELSE IF diagnostics.coverage.c95 > cov_high
    THEN <<Suggestion("df", "up", 1)>>
    ELSE << >>

\* the suggestion of the long-horizon analysis, if any
LongSuggestions(diagnostics, long_threshold, min_points) ==
    IF /\ diagnostics.long.present
       /\ diagnostics.long.mean > long_threshold
       /\ diagnostics.long.count >= min_points
    THEN <<Suggestion("sigma_cap_daily", "down", 0 - 1)>>
    ELSE << >>

\* get_tuning_suggestions without the check of the overall score
GetTuningSuggestionsAlways(diagnostics, overrides) ==
    LET short_threshold == Provided(overrides.high_short_crps_threshold,
                                    HIGH_SHORT_CRPS_THRESHOLD)
        long_threshold == Provided(overrides.high_long_crps_threshold,
                                   HIGH_LONG_CRPS_THRESHOLD)
        cov_low == Provided(overrides.coverage_low_threshold, COVERAGE_LOW_THRESHOLD)
        cov_high == Provided(overrides.coverage_high_threshold, COVERAGE_HIGH_THRESHOLD)
        min_points == Provided(overrides.min_data_points, MIN_DATA_POINTS)
    IN  ShortSuggestions(diagnostics, short_threshold, min_points)
           \o CoverageSuggestions(diagnostics, cov_low, cov_high)
           \o LongSuggestions(diagnostics, long_threshold, min_points)

\* get_tuning_suggestions
GetTuningSuggestions(diagnostics, overrides) ==
    LET good_threshold == Provided(overrides.good_crps_threshold, GOOD_CRPS_THRESHOLD)
        short_threshold == Provided(overrides.high_short_crps_threshold,
                                    HIGH_SHORT_CRPS_THRESHOLD)
        long_threshold == Provided(overrides.high_long_crps_threshold,
                                   HIGH_LONG_CRPS_THRESHOLD)
        cov_low == Provided(overrides.coverage_low_threshold, COVERAGE_LOW_THRESHOLD)
        cov_high == Provided(overrides.coverage_high_threshold, COVERAGE_HIGH_THRESHOLD)
        min_points == Provided(overrides.min_data_points, MIN_DATA_POINTS)
    IN  IF diagnostics.overall.present /\ diagnostics.overall.mean_crps < good_threshold
        THEN << >>
        ELSE ShortSuggestions(diagnostics, short_threshold, min_points)
                \o CoverageSuggestions(diagnostics, cov_low, cov_high)
                \o LongSuggestions(diagnostics, long_threshold, min_points)

\* the reports given to the call: overall mean around the threshold or absent,
\* horizons absent or with a mean at or over their threshold and a count under
\* or at the minimum, coverage absent, under, inside and over the band, its
\* rates computed over fewer predictions than the minimum or over as many
TuneOveralls ==
    {NoDiagnostics.overall}
      \cup {[present |-> TRUE, mean_crps |-> m] :
               m \in {GOOD_CRPS_THRESHOLD - 1, GOOD_CRPS_THRESHOLD,
                      GOOD_CRPS_THRESHOLD + 1}}

TuneHorizons(threshold) ==
    {NoHorizon}
      \cup {[present |-> TRUE, mean |-> m, count |-> n] :
               m \in {threshold, threshold + 1},
               n \in {MIN_DATA_POINTS - 1, MIN_DATA_POINTS}}

TuneCoverages ==
    {NoDiagnostics.coverage}
      \cup {[present |-> TRUE, c95 |-> r, count |-> n] :
               r \in {COVERAGE_LOW_THRESHOLD - 1, COVERAGE_LOW_THRESHOLD,
                      COVERAGE_HIGH_THRESHOLD, COVERAGE_HIGH_THRESHOLD + 1},
               n \in {MIN_DATA_POINTS - 1, MIN_DATA_POINTS}}

TuneReports ==
    {[overall |-> o, short |-> s, long |-> l, coverage |-> r] :
        o \in TuneOveralls, s \in TuneHorizons(HIGH_SHORT_CRPS_THRESHOLD),
        l \in TuneHorizons(HIGH_LONG_CRPS_THRESHOLD), r \in TuneCoverages}

\* the thresholds given to the call: none, or a good-accuracy threshold of 51
TuneOverrides ==
    {NoOverrides,
     [NoOverrides EXCEPT !.good_crps_threshold = GOOD_CRPS_THRESHOLD + 1]}

TuneInit ==
    /\ now = 0
    /\ states = [a \in Assets |-> NoState]
    /\ price_cache = [a \in Assets |-> NoCache]
    /\ tuning_history = << >>
    /\ miner_start_date = 0
    /\ history_file = [miner_start_date |-> miner_start_date, records |-> << >>]
    /\ last_proposal = NoProposal
    /\ hr = IdleHr
    /\ result = NoResult
    /\ pred_log = << >>
    /\ last_logged_time = << >>
    /\ state_file = NoFile
    /\ last_persist_time = << >>
    /\ nreq = 0
    /\ nprop = 0
    /\ threads = IdleThreads
    /\ conv = NoConv
    /\ temp_file = NoTempFile
    /\ attempts = NoAttempts
    /\ realized_cache = {}
    /\ log_files = << >>
    /\ query = NoQuery
    /\ score_store = NoScores
    /\ report = NoReport
    /\ loops = NoLoops
    /\ tuning \in {[called |-> FALSE, diagnostics |-> diagnostics,
                    overrides |-> overrides, suggestions |-> << >>] :
                      diagnostics \in TuneReports, overrides \in TuneOverrides}

\* the get_tuning_suggestions call
TuneSuggest ==
    /\ ~tuning.called
    /\ tuning' = [tuning EXCEPT
                    !.called = TRUE,
                    !.suggestions = GetTuningSuggestions(tuning.diagnostics,
                                                         tuning.overrides)]
    /\ UNCHANGED <<now, states, price_cache, tuning_history, miner_start_date,
                   history_file, last_proposal, hr, result, pred_log,
                   last_logged_time, state_file, last_persist_time, nreq, nprop,
                   threads, conv, temp_file, attempts, realized_cache, log_files,
                   query, score_store,
                   report, loops>>

TuneNext == TuneSuggest

TuneSpec == TuneInit /\ [][TuneNext]_vars

\* the threshold the call compares the overall mean with
GoodThreshold == Provided(tuning.overrides.good_crps_threshold, GOOD_CRPS_THRESHOLD)

OverallGood ==
    /\ tuning.diagnostics.overall.present
    /\ tuning.diagnostics.overall.mean_crps < GoodThreshold

\* C30: a call on a report whose overall mean score is below the good-accuracy
\* threshold returns no suggestion, whatever the horizon statistics and the
\* coverage rates of the report.
C30_NoSuggestionsWhenOverallGood ==
    tuning.called /\ OverallGood => tuning.suggestions = << >>

\* a call on a good report whose short horizon, coverage and long horizon would
\* each have given a suggestion
C30_Witness ==
    /\ tuning.called
    /\ OverallGood
    /\ tuning.suggestions = << >>
    /\ Len(GetTuningSuggestionsAlways(tuning.diagnostics, tuning.overrides)) = 3

\* the number of samples under the statistics a suggestion is drawn from
SamplesBehind(suggestion) ==
    CASE suggestion.parameter = "lambda" -> tuning.diagnostics.short.count
      [] suggestion.parameter = "df" -> tuning.diagnostics.coverage.count
      [] suggestion.parameter = "sigma_cap_daily" -> tuning.diagnostics.long.count

\* C31: no suggestion is emitted from statistics that rest on fewer than
\* min_data_points samples, for each of the four heuristics (lambda down,
\* df down, df up, sigma_cap_daily down).
C31_EverySuggestionHasEnoughSamples ==
    tuning.called =>
        \A i \in DOMAIN tuning.suggestions :
            SamplesBehind(tuning.suggestions[i])
                >= Provided(tuning.overrides.min_data_points, MIN_DATA_POINTS)

-----------------------------------------------------------------------------
(* Diagnostics report (offline_crps/diagnostics.py, generate_diagnostics_     *)
(* report): the overall statistics of a set of scoring results.  A mean is    *)
(* kept as the fraction sum / count it is computed as.                        *)

DiagMaxResults == 3

\* a scoring result as replay_prediction stores it
ScoringResult(prediction_id, total_crps) ==
    [prediction_id |-> prediction_id, total_crps |-> total_crps]

RECURSIVE SumOf(_)
SumOf(values) == IF values = << >> THEN 0 ELSE Head(values) + SumOf(Tail(values))

\* np.mean
MeanOf(values) == [sum |-> SumOf(values), count |-> Len(values)]

\* [r["total_crps"] for r in crps_results]
TotalsOf(crps_results) == [i \in DOMAIN crps_results |-> crps_results[i].total_crps]

IsPositive(value) == value > 0

\* overall_statistics is None
NoOverall == [present |-> FALSE, mean_crps |-> MeanOf(<< >>), count |-> 0]

\* the overall statistics computed over every result
OverallStatisticsOfAll(crps_results) ==
    LET total_crps_values == TotalsOf(crps_results)
    IN  IF total_crps_values = << >> THEN NoOverall
        ELSE [present |-> TRUE, mean_crps |-> MeanOf(total_crps_values),
              count |-> Len(total_crps_values)]

\* the overall statistics of generate_diagnostics_report
OverallStatistics(crps_results) ==
    LET total_crps_values == SelectSeq(TotalsOf(crps_results), IsPositive)
    IN  IF total_crps_values = << >> THEN NoOverall
        ELSE [present |-> TRUE, mean_crps |-> MeanOf(total_crps_values),
              count |-> Len(total_crps_values)]

\* the total scores of the results given to the call: a failed scoring, a
\* score of zero, two positive scores
DiagTotals == {0 - 1, 0, 10, 25}

RECURSIVE SeqsUpTo(_, _)
SeqsUpTo(S, n) ==
    IF n = 0 THEN {<< >>}
    ELSE LET shorter == SeqsUpTo(S, n - 1)
         IN  shorter \cup {Append(q, x) : q \in shorter, x \in S}

DiagResultSets ==
    {[i \in DOMAIN totals |-> ScoringResult(i, totals[i])] :
        totals \in SeqsUpTo(DiagTotals, DiagMaxResults)}

DiagInit ==
    /\ now = 0
    /\ states = [a \in Assets |-> NoState]
    /\ price_cache = [a \in Assets |-> NoCache]
    /\ tuning_history = << >>
    /\ miner_start_date = 0
    /\ history_file = [miner_start_date |-> miner_start_date, records |-> << >>]
    /\ last_proposal = NoProposal
    /\ hr = IdleHr
    /\ result = NoResult
    /\ pred_log = << >>
    /\ last_logged_time = << >>
    /\ state_file = NoFile
    /\ last_persist_time = << >>
    /\ nreq = 0
    /\ nprop = 0
    /\ threads = IdleThreads
    /\ conv = NoConv
    /\ temp_file = NoTempFile
    /\ attempts = NoAttempts
    /\ realized_cache = {}
    /\ log_files = << >>
    /\ query = NoQuery
    /\ score_store = NoScores
    /\ tuning = NoTuning
    /\ loops = NoLoops
    /\ report \in {[called |-> FALSE, crps_results |-> crps_results,
                    overall_statistics |-> NoOverall] :
                      crps_results \in DiagResultSets}

\* the generate_diagnostics_report call
DiagReport ==
    /\ ~report.called
    /\ report' = [report EXCEPT
                    !.called = TRUE,
                    !.overall_statistics = OverallStatistics(report.crps_results)]
    /\ UNCHANGED <<now, states, price_cache, tuning_history, miner_start_date,
                   history_file, last_proposal, hr, result, pred_log,
                   last_logged_time, state_file, last_persist_time, nreq, nprop,
                   threads, conv, temp_file, attempts, realized_cache, log_files,
                   query, score_store, tuning, loops>>

DiagNext == DiagReport

DiagSpec == DiagInit /\ [][DiagNext]_vars

\* the results of the call whose total score is positive
PositiveResults ==
    {i \in DOMAIN report.crps_results : report.crps_results[i].total_crps > 0}

RECURSIVE TotalOver(_)
TotalOver(ids) ==
    IF ids = {} THEN 0
    ELSE LET i == CHOOSE i \in ids : TRUE
         IN  report.crps_results[i].total_crps + TotalOver(ids \ {i})

\* the fraction mean equals total / number
MeanIs(mean, total, number) == mean.sum * number = total * mean.count

\* C32 as stated: for a set of results, mean_crps of the overall statistics
\* is the arithmetic mean of the total scores of all results of the set and
\* count is the number of results.
C32_MeanOverAllResults ==
    report.called /\ report.crps_results # << >> =>
        /\ report.overall_statistics.present
        /\ MeanIs(report.overall_statistics.mean_crps,
                  TotalOver(DOMAIN report.crps_results), Len(report.crps_results))
        /\ report.overall_statistics.count = Len(report.crps_results)

\* C32 amended: mean_crps is the arithmetic mean of the total scores of the
\* results with a positive total score and count is their number; a set
\* without such a result has no overall statistics.
C32_MeanOverPositiveResults ==
    report.called =>
        IF PositiveResults = {}
        THEN ~report.overall_statistics.present
        ELSE /\ report.overall_statistics.present
             /\ report.overall_statistics.mean_crps.count > 0
             /\ MeanIs(report.overall_statistics.mean_crps,
                       TotalOver(PositiveResults), Cardinality(PositiveResults))
             /\ report.overall_statistics.count = Cardinality(PositiveResults)

\* a report over results of which some have a positive total score and some not
C32_Witness ==
    /\ report.called
    /\ report.overall_statistics.present
    /\ PositiveResults # {}
    /\ PositiveResults # DOMAIN report.crps_results

-----------------------------------------------------------------------------
(* The background loops (volatility_updater.py, automated_tuning.py): start,  *)
(* stop and the loop thread.  A thread is at the start of its loop body       *)
(* ("started"), in time.sleep ("sleeping") or ended ("done").                 *)

UPDATE_INTERVAL == 60
SCHEDULER_SLEEP == 3600
JOIN_TIMEOUT == 5
DIAGNOSTICS_INTERVAL_HOURS == 168
TUNING_CHECK_INTERVAL_HOURS == 168

LoopMaxThreads == 2

\* the time.sleep at the end of a loop body
SleepSeconds(c) == IF c = "updater" THEN UPDATE_INTERVAL ELSE SCHEDULER_SLEEP

NewThread == [pc |-> "started", wake |-> 0]

Alive(thread) == thread.pc # "done"

\* the thread is at "while self.running"
AtLoopTest(thread, t) ==
    \/ thread.pc = "started"
    \/ thread.pc = "sleeping" /\ t >= thread.wake

\* start(): nothing when the flag is up, else the flag is raised and a new
\* thread is created and started
LoopStart(lp) ==
    IF lp.running THEN lp
    ELSE [lp EXCEPT !.running = TRUE,
                    !.threads = Append(lp.threads, NewThread),
                    !.thread = Len(lp.threads) + 1]

\* stop() up to its join: the flag is lowered, join(timeout = 5) on self.thread
LoopStopCall(lp, t) ==
    IF lp.thread = 0 THEN [lp EXCEPT !.running = FALSE]
    ELSE [lp EXCEPT !.running = FALSE, !.joining = TRUE,
                    !.deadline = t + JOIN_TIMEOUT]

\* join returns: the thread has ended or the timeout has passed
JoinReturns(lp, t) ==
    /\ lp.joining
    /\ \/ ~Alive(lp.threads[lp.thread])
       \/ t >= lp.deadline

\* the body of the updater's loop for one asset: fetch_start_price, then
\* update_state unless no price came
UpdaterBody(sts, cache, hist, asset, t, pyth) ==
    LET fetched == FetchStartPrice(cache, asset, t, pyth)
    IN  IF fetched.price = NoPrice \/ fetched.price <= 0
        THEN [states |-> sts, cache |-> fetched.cache]
        ELSE [states |-> UpdateState(sts, hist, asset, fetched.price, t).states,
              cache |-> fetched.cache]

\* whether a task of the scheduler's loop is due at time t
TaskDue(last_run, interval_hours, t) ==
    \/ last_run = NeverReplayed
    \/ t - last_run >= interval_hours * 3600

\* the pass with the diagnostics run before the replay
CycleStepsDiagnosticsFirst(replay_due, diagnostics_due, tuning_due) ==
    (IF diagnostics_due THEN <<"diagnostics">> ELSE << >>)
      \o (IF replay_due THEN <<"replay">> ELSE << >>)
      \o (IF tuning_due THEN <<"eligibility">> ELSE << >>)

\* the tasks one pass of the scheduler's loop runs, in the order it runs them
CycleSteps(replay_due, diagnostics_due, tuning_due) ==
    (IF replay_due THEN <<"replay">> ELSE << >>)
      \o (IF diagnostics_due THEN <<"diagnostics">> ELSE << >>)
      \o (IF tuning_due THEN <<"eligibility">> ELSE << >>)

\* the next timer to expire after t: a sleep of a thread or a join timeout
Timers(lps) ==
    UNION {{lps[c].threads[i].wake : i \in {j \in DOMAIN lps[c].threads :
                                               lps[c].threads[j].pc = "sleeping"}}
             \cup (IF lps[c].joining THEN {lps[c].deadline} ELSE {}) :
           c \in Components}

NextTimer(lps, t) ==
    CHOOSE x \in Timers(lps) : x > t /\ \A y \in Timers(lps) : y > t => x <= y

-----------------------------------------------------------------------------
(* The volatility updater: start(), stop() and the loop thread *)

UpdaterMaxNow == 130

UpdaterAssets == {"BTC"}

UpdaterInit ==
    /\ now = 0
    /\ states = [a \in Assets |-> NoState]
    /\ price_cache = [a \in Assets |-> NoCache]
    /\ tuning_history = << >>
    /\ miner_start_date = 0
    /\ history_file = [miner_start_date |-> miner_start_date, records |-> << >>]
    /\ last_proposal = NoProposal
    /\ hr = IdleHr
    /\ result = NoResult
    /\ pred_log = << >>
    /\ last_logged_time = << >>
    /\ state_file = NoFile
    /\ last_persist_time = << >>
    /\ nreq = 0
    /\ nprop = 0
    /\ threads = IdleThreads
    /\ conv = NoConv
    /\ OthersIdle

\* time passes until the next timer expires; a thread that is ready to run is
\* not held back meanwhile
UpdaterTick ==
    /\ \A i \in DOMAIN loops["updater"].threads :
          ~AtLoopTest(loops["updater"].threads[i], now)
    /\ \E x \in Timers(loops) : x > now
    /\ NextTimer(loops, now) <= UpdaterMaxNow
    /\ now' = NextTimer(loops, now)
    /\ UNCHANGED <<states, price_cache, tuning_history, miner_start_date,
                   history_file, last_proposal, hr, result, pred_log,
                   last_logged_time, state_file, last_persist_time, nreq, nprop,
                   threads, conv, others>>

\* VolatilityUpdater.start()
UpdaterStart ==
    /\ ~loops["updater"].joining
    /\ Len(loops["updater"].threads) < LoopMaxThreads
    /\ loops' = [loops EXCEPT !["updater"] = LoopStart(@)]
    /\ UNCHANGED <<now, states, price_cache, tuning_history, miner_start_date,
                   history_file, last_proposal, hr, result, pred_log,
                   last_logged_time, state_file, last_persist_time, nreq, nprop,
                   threads, conv, temp_file, attempts, realized_cache, log_files,
                   query, score_store, tuning, report>>

\* VolatilityUpdater.stop() up to its join
UpdaterStopCall ==
    /\ ~loops["updater"].joining
    /\ loops' = [loops EXCEPT !["updater"] = LoopStopCall(@, now)]
    /\ UNCHANGED <<now, states, price_cache, tuning_history, miner_start_date,
                   history_file, last_proposal, hr, result, pred_log,
                   last_logged_time, state_file, last_persist_time, nreq, nprop,
                   threads, conv, temp_file, attempts, realized_cache, log_files,
                   query, score_store, tuning, report>>

\* VolatilityUpdater.stop() returns from its join
UpdaterStopReturn ==
    /\ JoinReturns(loops["updater"], now)
    /\ loops' = [loops EXCEPT !["updater"].joining = FALSE]
    /\ UNCHANGED <<now, states, price_cache, tuning_history, miner_start_date,
                   history_file, last_proposal, hr, result, pred_log,
                   last_logged_time, state_file, last_persist_time, nreq, nprop,
                   threads, conv, temp_file, attempts, realized_cache, log_files,
                   query, score_store, tuning, report>>

\* a loop thread finds the flag up: one pass of _run_loop up to its sleep
UpdaterIterate ==
    \E i \in DOMAIN loops["updater"].threads, asset \in UpdaterAssets :
      \E pyth \in PythOutcomes(asset) :
        \E out \in {UpdaterBody(states, price_cache, tuning_history, asset, now,
                                pyth)} :
            /\ AtLoopTest(loops["updater"].threads[i], now)
            /\ loops["updater"].running
            /\ states' = out.states
            /\ price_cache' = out.cache
            /\ loops' = [loops EXCEPT !["updater"].threads[i] =
                            [pc |-> "sleeping", wake |-> now + SleepSeconds("updater")]]
            /\ UNCHANGED <<now, tuning_history, miner_start_date, history_file,
                           last_proposal, hr, result, pred_log, last_logged_time,
                           state_file, last_persist_time, nreq, nprop, threads,
                           conv, temp_file, attempts, realized_cache, log_files,
                           query, score_store, tuning, report>>

\* a loop thread finds the flag down and ends
UpdaterExit ==
    \E i \in DOMAIN loops["updater"].threads :
        /\ AtLoopTest(loops["updater"].threads[i], now)
        /\ ~loops["updater"].running
        /\ loops' = [loops EXCEPT !["updater"].threads[i].pc = "done"]
        /\ UNCHANGED <<now, states, price_cache, tuning_history, miner_start_date,
                       history_file, last_proposal, hr, result, pred_log,
                       last_logged_time, state_file, last_persist_time, nreq,
                       nprop, threads, conv, temp_file, attempts, realized_cache,
                       log_files, query, score_store, tuning, report>>

UpdaterNext ==
    \/ UpdaterTick
    \/ UpdaterStart
    \/ UpdaterStopCall
    \/ UpdaterStopReturn
    \/ UpdaterIterate
    \/ UpdaterExit

UpdaterSpec == UpdaterInit /\ [][UpdaterNext]_vars

\* the loop threads of a component that have not ended
AliveThreads(c) == {i \in DOMAIN loops[c].threads : Alive(loops[c].threads[i])}

\* C33: when no stop() is in progress, a component whose flag is down has no
\* loop thread left (stop() has joined it), and a component never has more
\* than one loop thread alive, whatever the sequence of start() and stop().
C33_StopJoinsLoopThread ==
    \A c \in Components :
        /\ Cardinality(AliveThreads(c)) <= 1
        /\ ~loops[c].running /\ ~loops[c].joining => AliveThreads(c) = {}

-----------------------------------------------------------------------------
(* The tuning scheduler: start(), stop(), the loop thread and its passes.     *)
(* The operator's "propose" command (scripts/parameter_tuning.py) is the only *)
(* caller of propose_parameter_change.                                        *)

SchedulerMaxNow == 90000
SchedulerMaxThreads == 1

SCHEDULER_ASSETS == {"BTC", "ETH", "SOL", "XAU"}

\* the thresholds the scheduler passes to get_tuning_suggestions: its own
\* attributes, which default to the governance's values
SchedulerThresholds ==
    [good_crps_threshold |-> GOOD_CRPS_THRESHOLD,
     high_short_crps_threshold |-> HIGH_SHORT_CRPS_THRESHOLD,
     high_long_crps_threshold |-> HIGH_LONG_CRPS_THRESHOLD,
     coverage_low_threshold |-> COVERAGE_LOW_THRESHOLD,
     coverage_high_threshold |-> COVERAGE_HIGH_THRESHOLD,
     min_data_points |-> MIN_DATA_POINTS]

\* the reports the stored results can give: a good one, and one with a high
\* short-horizon score over enough samples; generate_diagnostics_report is
\* called without paths, so the report has no coverage rates
SchedulerReports ==
    {[overall |-> [present |-> TRUE, mean_crps |-> m],
      short |-> [present |-> TRUE, mean |-> sm, count |-> MIN_DATA_POINTS],
      long |-> [present |-> TRUE, mean |-> 0, count |-> 0],
      coverage |-> NoDiagnostics.coverage] :
        m \in {GOOD_CRPS_THRESHOLD - 1, GOOD_CRPS_THRESHOLD + 1},
        sm \in {HIGH_SHORT_CRPS_THRESHOLD + 1}}

\* the results _run_diagnostics reads: those with t0 in the last 7 days
RECURSIVE ResultsInWindow(_, _)
ResultsInWindow(results, t) ==
    IF results = << >> THEN << >>
    ELSE (IF /\ t - CRPS_REPLAY_DAYS * SECONDS_PER_DAY <= Head(results).t0
             /\ Head(results).t0 <= t
          THEN <<Head(results)>> ELSE << >>)
            \o ResultsInWindow(Tail(results), t)

\* _check_tuning_eligibility: the number of eligible pairs it logs
EligibleCount(hist, start_date, t) ==
    Cardinality({pair \in SCHEDULER_ASSETS \X Parameters :
                    IsTuningEligible(hist, start_date, t, pair[1], pair[2]).eligible})

\* the predictions logged before the scheduler started: none, or one
SchedulerLogs ==
    {<< >>, AppendLine(<< >>, 0, RecordLine(0, "BTC", "low", 0))}

SchedulerInit ==
    /\ now = 0
    /\ states = [a \in Assets |-> NoState]
    /\ price_cache = [a \in Assets |-> NoCache]
    /\ tuning_history = << >>
    /\ miner_start_date = 0 - DaysInSeconds(FIRST_TUNING_ELIGIBILITY_DAYS)
    /\ history_file = [miner_start_date |-> miner_start_date, records |-> << >>]
    /\ last_proposal = NoProposal
    /\ hr = IdleHr
    /\ result = NoResult
    /\ pred_log = << >>
    /\ last_logged_time = << >>
    /\ state_file = NoFile
    /\ last_persist_time = << >>
    /\ nreq = 0
    /\ nprop = 0
    /\ threads = IdleThreads
    /\ conv = NoConv
    /\ temp_file = NoTempFile
    /\ attempts = NoAttempts
    /\ realized_cache = {}
    /\ log_files \in SchedulerLogs
    /\ query = NoQuery
    /\ score_store = NoScores
    /\ tuning = NoTuning
    /\ report = NoReport
    /\ loops = NoLoops

\* time passes until the next timer expires; a thread that is ready to run is
\* not held back meanwhile
SchedulerTick ==
    /\ \A i \in DOMAIN loops["scheduler"].threads :
          ~AtLoopTest(loops["scheduler"].threads[i], now)
    /\ \E x \in Timers(loops) : x > now
    /\ NextTimer(loops, now) <= SchedulerMaxNow
    /\ now' = NextTimer(loops, now)
    /\ UNCHANGED <<states, price_cache, tuning_history, miner_start_date,
                   history_file, last_proposal, hr, result, pred_log,
                   last_logged_time, state_file, last_persist_time, nreq, nprop,
                   threads, conv, others>>

\* AutomatedTuningScheduler.start(), enabled
SchedulerStart ==
    /\ ~loops["scheduler"].joining
    /\ Len(loops["scheduler"].threads) < SchedulerMaxThreads
    /\ loops' = [loops EXCEPT !["scheduler"] = LoopStart(@)]
    /\ UNCHANGED <<now, states, price_cache, tuning_history, miner_start_date,
                   history_file, last_proposal, hr, result, pred_log,
                   last_logged_time, state_file, last_persist_time, nreq, nprop,
                   threads, conv, temp_file, attempts, realized_cache, log_files,
                   query, score_store, tuning, report>>

\* AutomatedTuningScheduler.stop() up to its join
SchedulerStopCall ==
    /\ ~loops["scheduler"].joining
    /\ loops["scheduler"].running
    /\ loops' = [loops EXCEPT !["scheduler"] = LoopStopCall(@, now)]
    /\ UNCHANGED <<now, states, price_cache, tuning_history, miner_start_date,
                   history_file, last_proposal, hr, result, pred_log,
                   last_logged_time, state_file, last_persist_time, nreq, nprop,
                   threads, conv, temp_file, attempts, realized_cache, log_files,
                   query, score_store, tuning, report>>

\* AutomatedTuningScheduler.stop() returns from its join
SchedulerStopReturn ==
    /\ JoinReturns(loops["scheduler"], now)
    /\ loops' = [loops EXCEPT !["scheduler"].joining = FALSE]
    /\ UNCHANGED <<now, states, price_cache, tuning_history, miner_start_date,
                   history_file, last_proposal, hr, result, pred_log,
                   last_logged_time, state_file, last_persist_time, nreq, nprop,
                   threads, conv, temp_file, attempts, realized_cache, log_files,
                   query, score_store, tuning, report>>

\* a loop thread finds the flag up: one pass of _run_loop up to its sleep.
\* The replay appends its results; the diagnostics read the results of the
\* window and, when there are any, log the report and its suggestions; the
\* eligibility check logs the eligible pairs.
SchedulerIterate ==
    \E i \in DOMAIN loops["scheduler"].threads, failed \in {{}, {1}},
       diagnostics \in SchedulerReports :
      LET lp == loops["scheduler"]
          replay_due == TaskDue(score_store.last_crps_replay,
                                CRPS_REPLAY_INTERVAL_HOURS, now)
          diagnostics_due == TaskDue(lp.last_diagnostics,
                                     DIAGNOSTICS_INTERVAL_HOURS, now)
          tuning_due == TaskDue(lp.last_tuning_check,
                                TUNING_CHECK_INTERVAL_HOURS, now)
          steps == CycleSteps(replay_due, diagnostics_due, tuning_due)
          replay_first == \A j \in DOMAIN steps :
                              steps[j] = "diagnostics" =>
                                  \E k \in 1..(j - 1) : steps[k] = "replay"
          replayed == IF replay_due
                      THEN RunCrpsReplay(log_files, score_store.results, failed, now)
                      ELSE score_store.results
          read == IF replay_first THEN replayed ELSE score_store.results
          results == ResultsInWindow(read, now)
      IN  /\ AtLoopTest(lp.threads[i], now)
          /\ lp.running
          /\ score_store' = [results |-> replayed,
                             last_crps_replay |->
                                 IF replay_due THEN now
                                 ELSE score_store.last_crps_replay]
          /\ tuning' = IF diagnostics_due /\ results # << >>
                       THEN [called |-> TRUE, diagnostics |-> diagnostics,
                             overrides |-> SchedulerThresholds,
                             suggestions |->
                                 GetTuningSuggestions(diagnostics, SchedulerThresholds)]
                       ELSE tuning
          /\ loops' = [loops EXCEPT !["scheduler"] =
                [lp EXCEPT
                   !.last_diagnostics = IF diagnostics_due THEN now ELSE @,
                   !.last_tuning_check = IF tuning_due THEN now ELSE @,
                   !.cycle = steps,
                   !.eligible_count =
                       IF tuning_due
                       THEN EligibleCount(tuning_history, miner_start_date, now)
                       ELSE @,
                   !.threads[i] = [pc |-> "sleeping",
                                   wake |-> now + SleepSeconds("scheduler")]]]
          /\ UNCHANGED <<now, states, price_cache, tuning_history,
                         miner_start_date, history_file, last_proposal, hr, result,
                         pred_log, last_logged_time, state_file, last_persist_time,
                         nreq, nprop, threads, conv, temp_file, attempts,
                         realized_cache, log_files, query, report>>

\* a loop thread finds the flag down and ends
SchedulerExit ==
    \E i \in DOMAIN loops["scheduler"].threads :
        /\ AtLoopTest(loops["scheduler"].threads[i], now)
        /\ ~loops["scheduler"].running
        /\ loops' = [loops EXCEPT !["scheduler"].threads[i].pc = "done"]
        /\ UNCHANGED <<now, states, price_cache, tuning_history, miner_start_date,
                       history_file, last_proposal, hr, result, pred_log,
                       last_logged_time, state_file, last_persist_time, nreq,
                       nprop, threads, conv, temp_file, attempts, realized_cache,
                       log_files, query, score_store, tuning, report>>

\* a value the governance accepts and one it rejects
SchedulerProposalValues == {79, 93}

\* the operator's propose command: propose_parameter_change with _save_history
SchedulerPropose ==
    \E asset \in {"BTC"}, parameter_name \in {"lambda"} :
      \E new_value \in SchedulerProposalValues :
        /\ nprop < MaxProposals
        /\ \E out \in {ProposeParameterChange(tuning_history, miner_start_date, now,
                                             asset, parameter_name, new_value)} :
             /\ nprop' = nprop + 1
             /\ tuning_history' = out.hist
             /\ history_file' = IF out.ok
                                THEN [history_file EXCEPT !.records = out.hist]
                                ELSE history_file
             /\ last_proposal' = [asset |-> asset, parameter |-> parameter_name,
                                  new_value |-> new_value, at |-> now,
                                  exc |-> out.exc, ok |-> out.ok,
                                  reason |-> out.reason]
        /\ UNCHANGED <<now, states, price_cache, miner_start_date, hr, result,
                       pred_log, last_logged_time, state_file,
                       last_persist_time, nreq, threads, conv, others>>

SchedulerNext ==
    \/ SchedulerTick
    \/ SchedulerStart
    \/ SchedulerStopCall
    \/ SchedulerStopReturn
    \/ SchedulerIterate
    \/ SchedulerExit
    \/ SchedulerPropose

SchedulerSpec == SchedulerInit /\ [][SchedulerNext]_vars

\* the place of a step in the order replay, diagnostics, eligibility, propose
StepRank(step) ==
    CASE step = "replay" -> 1
      [] step = "diagnostics" -> 2
      [] step = "eligibility" -> 3
      [] step = "propose" -> 4

LastCycle == loops["scheduler"].cycle

\* the last pass ran the diagnostics, which gave a suggestion, and the
\* eligibility check, which found an eligible pair
CycleFoundChange ==
    /\ \E j \in DOMAIN LastCycle : LastCycle[j] = "diagnostics"
    /\ \E j \in DOMAIN LastCycle : LastCycle[j] = "eligibility"
    /\ tuning.called /\ tuning.suggestions # << >>
    /\ loops["scheduler"].eligible_count > 0

\* C34 as stated: the steps of a pass occur in the order replay, diagnostics,
\* eligibility check, propose/apply: a pass whose diagnostics suggest a change
\* and whose eligibility check finds an eligible parameter ends with the
\* proposal of a change.
C34_CycleEndsWithProposal ==
    /\ \A j \in DOMAIN LastCycle, k \in DOMAIN LastCycle :
          j < k => StepRank(LastCycle[j]) < StepRank(LastCycle[k])
    /\ CycleFoundChange => LastCycle[Len(LastCycle)] = "propose"

\* the steps of the last pass are among replay, diagnostics and eligibility
\* check, in that order
CycleInOrder ==
    \A j \in DOMAIN LastCycle :
        /\ LastCycle[j] \in {"replay", "diagnostics", "eligibility"}
        /\ \A k \in DOMAIN LastCycle :
              j < k => StepRank(LastCycle[j]) < StepRank(LastCycle[k])

\* a step of the scheduler's threads changes no parameter
PassChangesNoParameter ==
    loops' # loops =>
        /\ tuning_history' = tuning_history
        /\ history_file' = history_file
        /\ last_proposal' = last_proposal

\* C34 amended: the steps of a pass that are due occur in the order replay,
\* diagnostics, eligibility check, and the pass proposes no parameter change:
\* a change is proposed by the operator's command only.
C34_CycleOrderWithoutProposal == []CycleInOrder /\ [][PassChangesNoParameter]_vars

\* a pass with all three steps whose diagnostics gave a suggestion and whose
\* eligibility check found an eligible parameter
C34_Witness ==
    /\ LastCycle = <<"replay", "diagnostics", "eligibility">>
    /\ CycleFoundChange

-----------------------------------------------------------------------------
\* the square of the log return from last_close to new_close divided by the
\* square root of the elapsed minutes, in 1e-10
MinuteReturnSquared(new_close, last_close, time_elapsed) ==
    LET r_total == AbsLogReturn(new_close, last_close)
    IN  (((r_total * r_total) \div 100) * 60) \div time_elapsed

\* C35: an update_state call on an asset with state that comes at least 30
\* seconds after the asset's last update sets the variance to
\* max(lambda * variance + (1 - lambda) * r^2, 1e-8), r the log return from the
\* last price to the new one divided by the square root of the elapsed minutes,
\* and sets the last price and the last update timestamp to the observation.
C35_StateChangingUpdate ==
    [][\A c \in Callers :
          LET call == threads'[c]
              state == states[call.asset]
          IN  (/\ threads'[c] # threads[c]
               /\ call.op = "update_state"
               /\ state.present
               /\ now - state.last_update_ts >= UPDATE_MIN_SECONDS)
              => /\ states'[call.asset].sigma2_1m =
                      Max((state.lambda_val * state.sigma2_1m
                             + (100 - state.lambda_val)
                                 * MinuteReturnSquared(call.value, state.last_close_1m,
                                                       now - state.last_update_ts))
                            \div 100,
                          SIGMA2_FLOOR)
                 /\ states'[call.asset].last_close_1m = call.value
                 /\ states'[call.asset].last_update_ts = now]_vars

-----------------------------------------------------------------------------
\* C36: an update_state call on an asset without state creates the state with
\* the default variance of the asset's class, the variance the bootstrap of a
\* forecast request gives the asset, and with the given price and timestamp.
C36_UpdateCreatesWithClassDefault ==
    [][\A c \in Callers :
          LET call == threads'[c]
          IN  (/\ threads'[c] # threads[c]
               /\ call.op = "update_state"
               /\ call.exc = "none"
               /\ ~states[call.asset].present)
              => /\ states'[call.asset].present
                 /\ states'[call.asset].sigma2_1m = BootstrapSigma2(call.asset)
                 /\ states'[call.asset].last_close_1m = call.value
                 /\ states'[call.asset].last_update_ts = now]_vars

-----------------------------------------------------------------------------
\* the files the query read hold no corrupt line
QueryFilesWellFormed ==
    \A day \in DOMAIN query.files : \A i \in DOMAIN query.files[day] :
        ~query.files[day][i].corrupt

\* C37: for any start and end, ranges that cross a month boundary included,
\* get_logged_predictions over well-formed files returns exactly the stored
\* records with start <= t0 <= end that match the filters: no in-range record
\* of any month partition is omitted and no other record is returned.
C37_QueryExactAcrossMonths ==
    (query.called /\ QueryFilesWellFormed) =>
        /\ \A day \in DOMAIN query.files : \A i \in DOMAIN query.files[day] :
              Wanted(query, query.files[day][i])
                  => \E k \in DOMAIN query.predictions :
                        query.predictions[k] = query.files[day][i]
        /\ \A k \in DOMAIN query.predictions :
              /\ Wanted(query, query.predictions[k])
              /\ \E day \in DOMAIN query.files : \E i \in DOMAIN query.files[day] :
                    query.files[day][i] = query.predictions[k]

-----------------------------------------------------------------------------
\* C38: with force=False, a checkpoint write of the state table comes at least
\* persist_interval (30 s) after every earlier one, whichever assets' requests
\* triggered the two persist_if_needed calls.
C38_CheckpointsAtLeastIntervalApart ==
    [][\A a \in DOMAIN last_persist_time' :
          (a \notin DOMAIN last_persist_time
             \/ last_persist_time'[a] # last_persist_time[a])
          => \A b \in DOMAIN last_persist_time :
                last_persist_time'[a] - last_persist_time[b] >= PERSIST_INTERVAL]_vars

-----------------------------------------------------------------------------
-----------------------------------------------------------------------------
\* the record the step appends to the prediction log
NewRecord == pred_log'[Len(pred_log')]

\* the ensemble a response carries
ServedEnsemble(response) == Ensemble(response.n, response.path0, response.rest)

\* a step that adds a record is the return of a response to the record's request
RecordOnlyWithResponse ==
    pred_log' # pred_log =>
        /\ Len(pred_log') = Len(pred_log) + 1
        /\ SubSeq(pred_log', 1, Len(pred_log)) = pred_log
        /\ result'.kind = "response"
        /\ result' # result
        /\ NewRecord.t0 = result'.req.start_time
        /\ NewRecord.asset = result'.req.asset
        /\ NewRecord.request_time = hr.request_time

\* C40 as stated: a record is added only by a request answered with a response,
\* never by one that ends in an error, and the record's ensemble is the
\* ensemble the response carries.
C40_RecordIsServedEnsemble ==
    [][/\ RecordOnlyWithResponse
       /\ pred_log' # pred_log
            => NewRecord.price_paths = ServedEnsemble(result'.response)]_vars

\* a response was returned for a request whose record, the only one of the log,
\* holds the 1000 paths the response carries
C40_Witness ==
    /\ result.kind = "response"
    /\ Len(pred_log) = 1
    /\ pred_log[1].t0 = result.req.start_time
    /\ pred_log[1].asset = result.req.asset
    /\ pred_log[1].price_paths.n = REQUIRED_SIMULATIONS
    /\ pred_log[1].price_paths = ServedEnsemble(result.response)

====
